---- MODULE Spec2Model ----
(***************************************************************************)
(* The conformance runner of will-it-blossom: runTests drives the          *)
(* configured targets one after the other through runTargetTests           *)
(* (src/runner/index.ts); startTarget and the stop() handles of the three  *)
(* start strategies come from the orchestrator (src/runner/orchestrator.ts)*)
(*                                                                         *)
(* The runner is one async control flow, so its position is `pc`.  Every   *)
(* await is a position; what the awaited promise settles with is chosen by *)
(* the environment (a container, a child process, the file system), and a  *)
(* promise that never settles is the absence of the settling step.         *)
(* Timers (waitMs) are armed in `timer` and elapse as steps of their own.  *)
(*                                                                         *)
(* The pure functions of the capability predicates and of the JUnit        *)
(* extractor are operators; CapSpec, ParseSpec and DurSpec apply them to   *)
(* arguments drawn in their initial states (`fn`, `inp`, `out`).           *)
(***************************************************************************)
EXTENDS Naturals, Integers, Sequences, FiniteSets, TLC

\* Number of targets listed in the root configuration.
NumTargets == 2

Targets == 1..NumTargets

\* z.union([DockerStartSchema, DockerComposeStartSchema, ProcessStartSchema])
StartTypes == {"docker", "docker-compose", "process"}

\* Exit codes a spawned command reports: 0, 1, another code, -1 for null
\* (terminated by a signal).
ExitCodes == {0, 1, 2, -1}

VARIABLES
    pc,            \* position of the runner's control flow
    idx,           \* index of the target the for-loop of runTests is at
    cfg,           \* serverConfig.start.type of the current target
    target,        \* runTargetTests: `target` has been assigned
    result,        \* value runTargetTests is about to return
    targetResults, \* runTests: the manifest entries pushed so far
    container,     \* container / compose stack of the current target
    child,         \* ChildProcess of the current target (process, compose up)
    timer,         \* the waitMs timer armed by the current stop tier
    calls,         \* how often each operation was invoked for this target
    sigs,          \* signals child.kill() delivered, in order
    hist,          \* what the awaited promises of this target settled with
    leaked,        \* earlier targets whose resource outlived runTargetTests
    invoked,       \* targets startTarget was invoked for
    startFailed,   \* targets whose startTarget rejected
    abortCause,    \* why runTests rejected (main exits with code 1)
    internal,      \* runInternalTests: times spawned, how the suite ended
    run,           \* runTests: results.json written per target, manifest.json, summary
    fn,            \* the pure function under study ("none" in the runner)
    inp,           \* its arguments
    out            \* what it returned

\* The variables of the pure functions (capabilities.ts, json-reporter.ts).
pure == <<fn, inp, out>>

\* The variables of the runner's control flow.
runner == <<pc, idx, cfg, target, result, targetResults, container, child,
            timer, calls, sigs, hist, leaked, invoked, startFailed,
            abortCause, internal, run>>

vars == <<pc, idx, cfg, target, result, targetResults, container, child,
          timer, calls, sigs, hist, leaked, invoked, startFailed, abortCause,
          internal, run, fn, inp, out>>

\* Variables of one pass through runTargetTests.
NoChild == [pid |-> FALSE, killed |-> FALSE, running |-> FALSE]

NoCalls == [start |-> 0, stop |-> 0, vitest |-> 0, forceRemove |-> 0,
            down |-> 0]

NoHist == [start |-> "none", graceful |-> "none", stop |-> "none",
           down |-> "none", preDown |-> "none", bundle |-> FALSE, reports |-> "none",
           aliveAtGraceEnd |-> FALSE, vitest |-> "none", junit |-> "none",
           parsed |-> 0, counted |-> 0, logged |-> FALSE, matrix |-> FALSE]

\* The current target's container, stack or child process is alive.
ResourceAlive == container = "running" \/ child.running

(***************************************************************************)
(* The JUnit extractor (src/runner/reporters/json-reporter.ts).            *)
(*                                                                         *)
(* Text is a sequence of characters.  A junit.xml is a sequence of tags:   *)
(* the opening tag of a test case, its self-closing form, its closing tag, *)
(* and the failure and skipped markers, each with its attributes already   *)
(* split off ([present, s]: the attribute is there, with these characters).*)
(***************************************************************************)
NoAttr == [present |-> FALSE, s |-> <<>>]

Attr(s) == [present |-> TRUE, s |-> s]

Digits == {"0", "1", "2", "3", "4", "5", "6", "7", "8", "9"}

DigitValue(c) ==
    CASE c = "0" -> 0 [] c = "1" -> 1 [] c = "2" -> 2 [] c = "3" -> 3
      [] c = "4" -> 4 [] c = "5" -> 5 [] c = "6" -> 6 [] c = "7" -> 7
      [] c = "8" -> 8 [] c = "9" -> 9

RECURSIVE Pow10(_)
Pow10(k) == IF k = 0 THEN 1 ELSE 10 * Pow10(k - 1)

\* First position from p on that holds no decimal digit.
RECURSIVE SkipDigits(_, _)
SkipDigits(s, p) ==
    IF p <= Len(s) /\ s[p] \in Digits THEN SkipDigits(s, p + 1) ELSE p

\* First position from p on that holds no white space.
RECURSIVE SkipSpaces(_, _)
SkipSpaces(s, p) ==
    IF p <= Len(s) /\ s[p] = " " THEN SkipSpaces(s, p + 1) ELSE p

\* acc followed by the decimal digits s[p], ..., s[q-1].
RECURSIVE DigitsValue(_, _, _, _)
DigitsValue(s, p, q, acc) ==
    IF p >= q THEN acc
    ELSE DigitsValue(s, p + 1, q, 10 * acc + DigitValue(s[p]))

NaN == [nan |-> TRUE, neg |-> FALSE, num |-> 0, scale |-> 0]

\* Number.parseFloat: leading white space, a sign, then the longest prefix
\* that is a decimal literal (digits, digits.digits, digits., .digits);
\* whatever follows is ignored, and without such a prefix the result is
\* NaN.  The value is (-1)^neg * num / 10^scale.  (Exponents and "Infinity"
\* are not among the characters modelled.)
ParseFloat(s) ==
    LET p0      == SkipSpaces(s, 1)
        signed  == p0 <= Len(s) /\ s[p0] \in {"-", "+"}
        p1      == IF signed THEN p0 + 1 ELSE p0
        p2      == SkipDigits(s, p1)
        hasDot  == p2 <= Len(s) /\ s[p2] = "."
        p3      == IF hasDot THEN SkipDigits(s, p2 + 1) ELSE p2
        nInt    == p2 - p1
        nFrac   == IF hasDot THEN p3 - (p2 + 1) ELSE 0
    IN  IF nInt + nFrac = 0 THEN NaN
        ELSE [nan   |-> FALSE,
              neg   |-> signed /\ s[p0] = "-",
              num   |-> DigitsValue(s, p2 + 1, p3, DigitsValue(s, p1, p2, 0)),
              scale |-> nFrac]

\* Mutant: the fraction is cut off instead of rounded.
MathTrunc(n, d) == IF n >= 0 THEN n \div d ELSE 0 - ((0 - n) \div d)

\* Math.round of the fraction n / d (d > 0): the nearest integer, a half
\* going up.
MathRound(n, d) == (2 * n + d) \div (2 * d)

\* parseDuration: seconds as text to integer milliseconds.
ParseDuration(value) ==
    IF ~value.present \/ value.s = <<>> THEN 0
    ELSE LET parsed == ParseFloat(value.s)
         IN  IF parsed.nan THEN 0
             ELSE MathRound((IF parsed.neg THEN 0 - 1 ELSE 1)
                               * parsed.num * 1000,
                            Pow10(parsed.scale))

\* String.prototype.replace with a global pattern: every occurrence of pat,
\* left to right, becomes rep.
RECURSIVE ReplaceAll(_, _, _)
ReplaceAll(s, pat, rep) ==
    IF Len(s) < Len(pat) THEN s
    ELSE IF SubSeq(s, 1, Len(pat)) = pat
         THEN rep \o ReplaceAll(SubSeq(s, Len(pat) + 1, Len(s)), pat, rep)
         ELSE <<s[1]>> \o ReplaceAll(Tail(s), pat, rep)

\* decodeHtml: the five replacements, &amp; last.
DecodeHtml(text) ==
    LET lt   == ReplaceAll(text, <<"&", "l", "t", ";">>, <<"<">>)
        gt   == ReplaceAll(lt, <<"&", "g", "t", ";">>, <<">">>)
        quot == ReplaceAll(gt, <<"&", "q", "u", "o", "t", ";">>, <<"\"">>)
        apos == ReplaceAll(quot, <<"&", "#", "0", "3", "9", ";">>, <<"'">>)
    IN  ReplaceAll(apos, <<"&", "a", "m", "p", ";">>, <<"&">>)

\* String.prototype.trim.
RECURSIVE Trim(_)
Trim(s) ==
    IF s = <<>> THEN s
    ELSE IF s[1] = " " THEN Trim(Tail(s))
    ELSE IF s[Len(s)] = " " THEN Trim(SubSeq(s, 1, Len(s) - 1))
    ELSE s

\* The CDATA brackets are one character each here.  The pattern is lazy:
\* an opening bracket pairs with the nearest closing bracket after it, and
\* one that is never closed stays.
RECURSIVE StripCData(_)
StripCData(s) ==
    IF s = <<>> THEN s
    ELSE IF s[1] = "<![CDATA["
              /\ \E j \in 2 .. Len(s) : s[j] = "]]>"
         THEN LET j == CHOOSE j \in 2 .. Len(s) :
                          /\ s[j] = "]]>"
                          /\ \A i \in 2 .. j - 1 : s[i] # "]]>"
              IN  SubSeq(s, 2, j - 1) \o StripCData(SubSeq(s, j + 1, Len(s)))
         ELSE <<s[1]>> \o StripCData(Tail(s))

\* Mutant: the text is not trimmed.
CleanFailureTextNoTrim(text) ==
    IF ~text.present THEN <<>> ELSE StripCData(text.s)

\* cleanFailureText; an undefined capture group arrives as NoAttr.
CleanFailureText(text) ==
    IF ~text.present \/ text.s = <<>> THEN <<>>
    ELSE Trim(StripCData(text.s))

\* The tags of a junit.xml.  `form` tells a marker that ends in /> ("self")
\* from one with an end tag ("body"), whose text is `text`.
Tag(k, name, time, form, msg, text) ==
    [k |-> k, name |-> name, time |-> time, form |-> form, msg |-> msg,
     text |-> text]

OpenTag(name, time) == Tag("open", name, time, "body", NoAttr, <<>>)

SelfTag(name, time) == Tag("self", name, time, "self", NoAttr, <<>>)

CloseTag == Tag("close", NoAttr, NoAttr, "body", NoAttr, <<>>)

Marker(k, form, msg, text) == Tag(k, NoAttr, NoAttr, form, msg, text)

\* A marker pattern applied to the body of a test case.  Both patterns let
\* [^>]* run over the "/" of a self-closing marker, so such a marker is
\* read as an opening tag whenever an end tag of its kind follows in the
\* body.  The skipped pattern falls back to the self-closing reading; the
\* failure pattern has none.  The result is the match (attributes and
\* second capture group) or found |-> FALSE.
NoMatch == [found |-> FALSE, msg |-> NoAttr, text |-> NoAttr]

MarkerMatch(body, k) ==
    LET all   == {i \in DOMAIN body : body[i].k = k}
        ends  == {i \in all : body[i].form = "body"}
        first == CHOOSE i \in all : \A j \in all : i <= j
        later == {j \in ends : j > first}
    IN  IF all = {} THEN NoMatch
        ELSE IF body[first].form = "body"
        THEN [found |-> TRUE, msg |-> body[first].msg,
              text |-> Attr(body[first].text)]
        ELSE IF later # {}
        THEN LET j == CHOOSE j \in later : \A l \in later : j <= l
             IN  [found |-> TRUE, msg |-> body[first].msg,
                  text |-> Attr(<<"<", k, ">">> \o body[j].text)]
        ELSE IF k = "skipped"
        THEN [found |-> TRUE, msg |-> body[first].msg, text |-> NoAttr]
        ELSE NoMatch

NoError == [present |-> FALSE, message |-> <<>>, stack |-> NoAttr]

\* The body of the while loop of parseTestCases: the record of one match.
TestRecord(tag, body) ==
    LET failureMatch == MarkerMatch(body, "failure")
        skippedMatch == MarkerMatch(body, "skipped")
        decodedFailure == DecodeHtml(CleanFailureText(failureMatch.text))
        rawMessage == IF failureMatch.msg.present THEN failureMatch.msg.s
                      ELSE IF decodedFailure # <<>> THEN decodedFailure
                      ELSE <<"Test failed">>
        reason == IF skippedMatch.msg.present THEN skippedMatch.msg.s
                  ELSE CleanFailureText(skippedMatch.text)
    IN  [title      |-> DecodeHtml(IF tag.name.present THEN tag.name.s
                                   ELSE <<"Unnamed Test">>),
         status     |-> IF failureMatch.found THEN "failed"
                        ELSE IF skippedMatch.found THEN "skipped"
                        ELSE "passed",
         durationMs |-> ParseDuration(tag.time),
         error      |-> IF failureMatch.found
                        THEN [present |-> TRUE,
                              message |-> DecodeHtml(rawMessage),
                              stack   |-> IF decodedFailure # <<>>
                                          THEN Attr(decodedFailure)
                                          ELSE NoAttr]
                        ELSE NoError,
         skipReason |-> IF skippedMatch.found /\ reason # <<>>
                        THEN Attr(DecodeHtml(reason))
                        ELSE NoAttr]

\* testcaseRegex.exec from position i on.  An opening tag matches up to
\* the nearest closing tag and not at all without one.  In a self-closing
\* tag [^>]* runs over the "/" first, so the tag is read as an opening tag
\* whenever a closing tag follows anywhere behind it, and as self-closing
\* only otherwise.  The search resumes behind the match.
RECURSIVE ParseFrom(_, _, _)
ParseFrom(xml, i, tests) ==
    IF i > Len(xml) THEN tests
    ELSE IF xml[i].k \in {"open", "self"}
    THEN LET closes == {j \in i + 1 .. Len(xml) : xml[j].k = "close"}
         IN  IF closes # {}
             THEN LET j == CHOOSE j \in closes : \A l \in closes : j <= l
                  IN  ParseFrom(xml, j + 1,
                                Append(tests,
                                       TestRecord(xml[i],
                                                  SubSeq(xml, i + 1, j - 1))))
             ELSE IF xml[i].k = "self"
             THEN ParseFrom(xml, i + 1,
                            Append(tests, TestRecord(xml[i], <<>>)))
             ELSE ParseFrom(xml, i + 1, tests)
    ELSE ParseFrom(xml, i + 1, tests)

ParseTestCases(xml) == ParseFrom(xml, 1, <<>>)

\* Mutant: skipped tests are counted as passed.
RECURSIVE SummaryCountsSkippedAsPassed(_, _)
SummaryCountsSkippedAsPassed(tests, acc) ==
    IF tests = <<>> THEN acc
    ELSE LET test == Head(tests)
             key  == IF test.status = "skipped" THEN "passed"
                     ELSE test.status
         IN  SummaryCountsSkippedAsPassed(
                 Tail(tests),
                 [acc EXCEPT ![key] = @ + 1,
                             !.durationMs = @ + test.durationMs])

\* tests.reduce of writeRunResultsFromJUnit.
RECURSIVE Summary(_, _)
Summary(tests, acc) ==
    IF tests = <<>> THEN acc
    ELSE LET test == Head(tests)
         IN  Summary(Tail(tests),
                     [acc EXCEPT ![test.status] = @ + 1,
                                 !.durationMs = @ + test.durationMs])

NoSummary == [passed |-> 0, failed |-> 0, skipped |-> 0, durationMs |-> 0]

\* writeRunResultsFromJUnit: the payload written to results.json.
RunResults(xml) ==
    LET tests == ParseTestCases(xml)
    IN  [tests |-> tests, summary |-> Summary(tests, NoSummary)]

(***************************************************************************)
(* The runner.                                                             *)
(***************************************************************************)
\* No self-check suite has run yet.
NoInternal == [runs |-> 0, outcome |-> "none"]

\* Nothing written by the run yet: the targets whose results.json and
\* whose feature-matrix.md exist, the manifest.json files written and the final summaries printed.
NoRun == [bundled |-> {}, tabled |-> {}, manifests |-> <<>>, summaries |-> 0]

\* main() has dispatched `run`: runTests is entered.
RunnerInit ==
    /\ pc = "loadRootConfig"
    /\ idx = 1
    /\ cfg = "none"
    /\ target = FALSE
    /\ result = "undefined"
    /\ targetResults = <<>>
    /\ container = "none"
    /\ child = NoChild
    /\ timer = "none"
    /\ calls = NoCalls
    /\ sigs = <<>>
    /\ hist = NoHist
    /\ leaked = {}
    /\ invoked = {}
    /\ startFailed = {}
    /\ abortCause = "none"
    /\ internal = NoInternal
    /\ run = NoRun

Init ==
    /\ RunnerInit
    /\ fn = "none"
    /\ inp = <<>>
    /\ out = <<>>

\* runTests rejects: main().catch logs and calls process.exit(1).
Abort(cause) ==
    /\ pc' = "aborted"
    /\ abortCause' = cause

\* runTests lines 262-273: the root configuration is loaded and the targets
\* are selected; with none selected the process exits with code 1 at once.
LoadRootConfig ==
    /\ pc = "loadRootConfig"
    /\ \E r \in {"targets", "noTargets", "throws"} :
         CASE r = "targets"   -> pc' = "internalTests" /\ UNCHANGED abortCause
           [] r = "noTargets" -> pc' = "exited" /\ abortCause' = "noTargets"
           [] r = "throws"    -> Abort("rootConfig")
    /\ UNCHANGED <<idx, cfg, target, result, targetResults, container, child,
                   timer, calls, sigs, hist, leaked, invoked, startFailed,
                   internal, pure, run>>

\* runInternalTests: the self-check suite is spawned.
RunInternalTests ==
    /\ pc = "internalTests"
    /\ internal' = [internal EXCEPT !.runs = @ + 1]
    /\ pc' = "internalWait"
    /\ UNCHANGED <<idx, cfg, target, result, targetResults, container, child,
                   timer, calls, sigs, hist, leaked, invoked, startFailed,
                   abortCause, pure, run>>

\* Mutant: the exit handler of the self-check suite resolves on every code.
InternalTestsExitAlwaysResolves ==
    /\ pc = "internalWait"
    /\ \E code \in ExitCodes :
         internal' = [internal EXCEPT !.outcome = IF code = 0 THEN "passed"
                                                  ELSE "failed"]
    /\ pc' = "load"
    /\ UNCHANGED <<idx, cfg, target, result, targetResults, container, child,
                   timer, calls, sigs, hist, leaked, invoked, startFailed,
                   abortCause, pure, run>>

\* proc.on('exit') of the self-check suite: resolves on exit code 0, rejects
\* on every other code (null, for a signal, included).
InternalTestsExit ==
    /\ pc = "internalWait"
    /\ \E code \in ExitCodes :
         IF code = 0
         THEN /\ internal' = [internal EXCEPT !.outcome = "passed"]
              /\ pc' = "load"
              /\ UNCHANGED abortCause
         ELSE /\ internal' = [internal EXCEPT !.outcome = "failed"]
              /\ Abort("internal")
    /\ UNCHANGED <<idx, cfg, target, result, targetResults, container, child,
                   timer, calls, sigs, hist, leaked, invoked, startFailed,
                   pure, run>>

\* proc.on('error') of the self-check suite: it could not be spawned.
InternalTestsSpawnError ==
    /\ pc = "internalWait"
    /\ internal' = [internal EXCEPT !.outcome = "spawnError"]
    /\ Abort("internal")
    /\ UNCHANGED <<idx, cfg, target, result, targetResults, container, child,
                   timer, calls, sigs, hist, leaked, invoked, startFailed,
                   pure, run>>

\* runTargetTests line 194: loadServerConfig, outside the try block.
LoadServerConfig ==
    /\ pc = "load"
    /\ \E ok \in BOOLEAN :
         IF ok
         THEN /\ \E t \in StartTypes : cfg' = t
              /\ pc' = "startTarget"
              /\ UNCHANGED abortCause
         ELSE /\ Abort("config")
              /\ UNCHANGED cfg
    /\ UNCHANGED <<idx, target, result, targetResults, container, child,
                   timer, calls, sigs, hist, leaked, internal, pure, run, invoked, startFailed>>

\* spawn(): the child has a pid and runs, or has none (the command was not
\* found; the 'error' event is only logged).
Spawned(hasPid) == [pid |-> hasPid, killed |-> FALSE, running |-> hasPid]

\* startTarget: dispatch on cfg.start.type.
StartTarget ==
    /\ pc = "startTarget"
    /\ calls' = [calls EXCEPT !.start = @ + 1]
    /\ CASE cfg = "docker" ->
              pc' = "containerStart" /\ UNCHANGED child
         [] cfg = "docker-compose" ->
              pc' = "preDown" /\ UNCHANGED child
         [] cfg = "process" ->
              /\ \E hasPid \in BOOLEAN : child' = Spawned(hasPid)
              /\ pc' = "waitForHttp"
    /\ invoked' = invoked \cup {idx}
    /\ UNCHANGED <<idx, cfg, target, result, targetResults, container, timer,
                   sigs, hist, leaked, internal, pure, run, startFailed, abortCause>>

\* startTarget rejects: nothing is stopped, the error reaches the catch
\* block of runTargetTests with `target` still undefined.
StartRejects ==
    /\ pc' = "catch"
    /\ hist' = [hist EXCEPT !.start = "rejected"]
    /\ startFailed' = startFailed \cup {idx}

\* startDockerTarget: await container.start().
ContainerStart ==
    /\ pc = "containerStart"
    /\ \E ok \in BOOLEAN :
         IF ok
         THEN /\ container' = "running"
              /\ pc' = "waitForHttp"
              /\ UNCHANGED <<hist, startFailed>>
         ELSE /\ StartRejects
              /\ UNCHANGED container
    /\ UNCHANGED <<idx, cfg, target, result, targetResults, child, timer,
                   calls, sigs, leaked, internal, pure, run, invoked, abortCause>>

\* Mutant: the pre-start teardown awaited without the .catch.
ComposeUpWithoutCatch ==
    /\ pc = "preDown"
    /\ \E code \in ExitCodes, hasPid \in BOOLEAN :
         IF code = 0
         THEN /\ child' = Spawned(hasPid)
              /\ container' = IF hasPid THEN "running" ELSE "none"
              /\ hist' = [hist EXCEPT !.preDown = "ok"]
              /\ pc' = "waitForHttp"
              /\ UNCHANGED startFailed
         ELSE /\ pc' = "catch"
              /\ hist' = [hist EXCEPT !.preDown = "failed", !.start = "rejected"]
              /\ startFailed' = startFailed \cup {idx}
              /\ UNCHANGED <<child, container>>
    /\ UNCHANGED <<idx, cfg, target, result, targetResults, timer, calls,
                   sigs, leaked, internal, pure, run, invoked, abortCause>>

\* startDockerComposeTarget: the pre-start dockerComposeDown settles (exit
\* code 0 resolves; another code or a spawn error rejects, which is caught
\* and logged), then `docker compose up` is spawned.
ComposeUp ==
    /\ pc = "preDown"
    /\ \E code \in ExitCodes, hasPid \in BOOLEAN :
         /\ child' = Spawned(hasPid)
         /\ container' = IF hasPid THEN "running" ELSE "none"
         /\ hist' = [hist EXCEPT !.preDown = IF code = 0 THEN "ok" ELSE "failed"]
    /\ pc' = "waitForHttp"
    /\ UNCHANGED <<idx, cfg, target, result, targetResults, timer, calls,
                   sigs, leaked, internal, pure, run, invoked, startFailed, abortCause>>

\* await waitForHttp(...): resolves (startTarget returns the StartedTarget)
\* or throws the health-check error.
WaitForHttp ==
    /\ pc = "waitForHttp"
    /\ \E ok \in BOOLEAN :
         IF ok
         THEN /\ target' = TRUE
              /\ hist' = [hist EXCEPT !.start = "resolved"]
              /\ pc' = "writeServerInfo"
              /\ UNCHANGED startFailed
         ELSE /\ StartRejects
              /\ UNCHANGED target
    /\ UNCHANGED <<idx, cfg, result, targetResults, container, child, timer,
                   calls, sigs, leaked, internal, pure, run, invoked, abortCause>>

\* await writeServerInfo(...)
WriteServerInfo ==
    /\ pc = "writeServerInfo"
    /\ \E ok \in BOOLEAN : pc' = IF ok THEN "runVitest" ELSE "catch"
    /\ UNCHANGED <<idx, cfg, target, result, targetResults, container, child,
                   timer, calls, sigs, hist, leaked, internal, pure, run, invoked, startFailed, abortCause>>

\* Mutant: the test runner is spawned and not awaited.
RunVitestForTargetNotAwaited ==
    /\ pc = "runVitest"
    /\ calls' = [calls EXCEPT !.vitest = @ + 1]
    /\ pc' = "reports"
    /\ UNCHANGED <<idx, cfg, target, result, targetResults, container, child,
                   timer, sigs, hist, leaked, internal, pure, run, invoked, startFailed, abortCause>>

\* runVitestForTarget: spawn('npx', vitestArgs); no timer is armed.
RunVitestForTarget ==
    /\ pc = "runVitest"
    /\ calls' = [calls EXCEPT !.vitest = @ + 1]
    /\ pc' = "vitestWait"
    /\ UNCHANGED <<idx, cfg, target, result, targetResults, container, child,
                   timer, sigs, hist, leaked, internal, pure, run, invoked, startFailed, abortCause>>

\* Mutant: the exit handler of the test runner resolves on every code.
VitestExitAlwaysResolves ==
    /\ pc = "vitestWait"
    /\ \E code \in ExitCodes :
         hist' = [hist EXCEPT !.vitest = CASE code = 0  -> "exit0"
                                           [] code = 1  -> "exit1"
                                           [] code = -1 -> "signal"
                                           [] OTHER     -> "exitOther"]
    /\ pc' = "reports"
    /\ UNCHANGED <<idx, cfg, target, result, targetResults, container, child,
                   timer, calls, sigs, leaked, internal, pure, run, invoked,
                   startFailed, abortCause>>

\* proc.on('exit'): 0 and 1 resolve, every other code (null, for a signal,
\* included) rejects.
VitestExit ==
    /\ pc = "vitestWait"
    /\ \E code \in ExitCodes :
         /\ hist' = [hist EXCEPT !.vitest = CASE code = 0  -> "exit0"
                                              [] code = 1  -> "exit1"
                                              [] code = -1 -> "signal"
                                              [] OTHER     -> "exitOther"]
         /\ pc' = IF code = 0 \/ code = 1 THEN "reports" ELSE "catch"
    /\ UNCHANGED <<idx, cfg, target, result, targetResults, container, child,
                   timer, calls, sigs, leaked, internal, pure, run, invoked,
                   startFailed, abortCause>>

\* proc.on('error'): the runner could not be spawned.
VitestSpawnError ==
    /\ pc = "vitestWait"
    /\ hist' = [hist EXCEPT !.vitest = "spawnError"]
    /\ pc' = "catch"
    /\ UNCHANGED <<idx, cfg, target, result, targetResults, container, child,
                   timer, calls, sigs, leaked, internal, pure, run, invoked,
                   startFailed, abortCause>>

\* What the test runner can leave at <artifacts>/<target>/junit.xml: no
\* file, a file without a test case, one whose only test case is never
\* closed, one with a test case.
JUnitFiles ==
    {[exists |-> FALSE, xml |-> <<>>],
     [exists |-> TRUE,  xml |-> <<>>],
     [exists |-> TRUE,  xml |-> <<OpenTag(Attr(<<"a">>), NoAttr)>>],
     [exists |-> TRUE,  xml |-> <<SelfTag(Attr(<<"a">>), NoAttr)>>]}

\* The text holds a test case the extractor is meant to find: a
\* self-closing one, or an opening tag with a closing tag behind it.
HasTestCase(xml) ==
    \E i \in DOMAIN xml :
        \/ xml[i].k = "self"
        \/ xml[i].k = "open" /\ \E j \in DOMAIN xml : j > i /\ xml[j].k = "close"

\* Mutant: results.json is written whatever happened to junit.xml.
ResultsAlwaysDefined(junit, writeOk) == TRUE

\* generateReportsForTarget lines 156-169: writeRunResultsFromJUnit rejects
\* when junit.xml cannot be read or results.json cannot be written; .catch
\* logs the error and turns it into undefined.
ResultsDefined(junit, writeOk) == junit.exists /\ writeOk

\* generateReportsForTarget: after writeRunResultsFromJUnit,
\* writeFeatureMatrix is called with the records, or with none, and its
\* failure is thrown on; the manifest entry is returned only with results.
GenerateReportsForTarget ==
    /\ pc = "reports"
    /\ \E junit \in JUnitFiles, writeOk \in BOOLEAN, matrixOk \in BOOLEAN :
         LET jsonOk  == ResultsDefined(junit, writeOk)
             results == RunResults(junit.xml)
             summary == results.summary
             after   == [hist EXCEPT
                           !.junit   = IF ~junit.exists THEN "missing"
                                       ELSE IF HasTestCase(junit.xml)
                                       THEN "cases" ELSE "noCase",
                           !.bundle  = jsonOk,
                           !.parsed  = IF junit.exists
                                       THEN Len(results.tests) ELSE 0,
                           !.counted = IF junit.exists
                                       THEN summary.passed + summary.failed
                                              + summary.skipped
                                       ELSE 0,
                           !.logged  = ~jsonOk,
                           !.matrix  = matrixOk]
         IN  /\ junit.exists \/ writeOk
             /\ IF matrixOk
                THEN /\ result' = IF jsonOk THEN "entry" ELSE "undefined"
                     /\ hist' = [after EXCEPT
                                   !.reports = IF jsonOk THEN "entry"
                                               ELSE "undefined"]
                     /\ pc' = "finally"
                ELSE /\ hist' = [after EXCEPT !.reports = "threw"]
                     /\ pc' = "catch"
                     /\ UNCHANGED result
             /\ run' = [run EXCEPT
                          !.bundled = IF jsonOk THEN @ \cup {idx} ELSE @,
                          !.tabled  = IF matrixOk THEN @ \cup {idx} ELSE @]
    /\ UNCHANGED <<idx, cfg, target, targetResults, container, child, timer,
                   calls, sigs, leaked, internal, pure, invoked, startFailed,
                   abortCause>>

\* Mutant: the catch block logs and throws the error on.
CatchBlockRethrows ==
    /\ pc = "catch"
    /\ Abort("target")
    /\ UNCHANGED <<idx, cfg, target, result, targetResults, container, child,
                   timer, calls, sigs, hist, leaked, internal, pure, run, invoked, startFailed>>

\* catch (error) { console.error(...); return undefined; }
CatchBlock ==
    /\ pc = "catch"
    /\ result' = "undefined"
    /\ pc' = "finally"
    /\ UNCHANGED <<idx, cfg, target, targetResults, container, child, timer,
                   calls, sigs, hist, leaked, internal, pure, run, invoked, startFailed, abortCause>>

\* The first position of the stop() handle of each strategy.
StopEntry(type) ==
    CASE type = "docker" -> "stopDocker"
      [] type = "docker-compose" -> "stopCompose"
      [] type = "process" -> "stopProcess"

\* Mutant: stop() at the end of the try block instead of in finally.
FinallyBlockOnSuccessOnly ==
    /\ pc = "finally"
    /\ IF target /\ hist.reports \in {"entry", "undefined"}
       THEN /\ calls' = [calls EXCEPT !.stop = @ + 1]
            /\ pc' = StopEntry(cfg)
       ELSE /\ pc' = "return"
            /\ UNCHANGED calls
    /\ UNCHANGED <<idx, cfg, target, result, targetResults, container, child,
                   timer, sigs, hist, leaked, internal, pure, run, invoked, startFailed, abortCause>>

\* finally { if (target) { await target.stop().catch(...) } }
FinallyBlock ==
    /\ pc = "finally"
    /\ IF target
       THEN /\ calls' = [calls EXCEPT !.stop = @ + 1]
            /\ pc' = StopEntry(cfg)
       ELSE /\ pc' = "return"
            /\ UNCHANGED calls
    /\ UNCHANGED <<idx, cfg, target, result, targetResults, container, child,
                   timer, sigs, hist, leaked, internal, pure, run, invoked, startFailed, abortCause>>

\* The stop() handle settles; its timer, if one is still armed, is dropped.
StopSettles(how) ==
    /\ pc' = "stopSettled"
    /\ timer' = "none"
    /\ hist' = [hist EXCEPT !.stop = how]

\* child.kill(sig): the signal is delivered only to a child that still
\* runs, and then child.killed becomes true ("successfully received a
\* signal"), whether or not the child reacts.  SIGKILL cannot be ignored.
Kill(sig) ==
    IF child.running
    THEN /\ child' = [child EXCEPT !.killed = TRUE,
                                   !.running = (sig # "SIGKILL")]
         /\ sigs' = Append(sigs, sig)
    ELSE UNCHANGED <<child, sigs>>

\* The child exits by itself at any time: the server crashes while it is
\* probed or tested, or reacts to SIGTERM within the grace window.
ChildExits ==
    /\ child.running
    /\ child' = [child EXCEPT !.running = FALSE]
    /\ UNCHANGED <<pc, idx, cfg, target, result, targetResults, container,
                   timer, calls, sigs, hist, leaked, internal, pure, run, invoked, startFailed, abortCause>>

\* Mutant: container.stop() awaited without the race against a timer.
StopDockerContainerNoTimer ==
    /\ pc = "stopDocker"
    /\ pc' = "dockerStopWait"
    /\ UNCHANGED <<idx, cfg, target, result, targetResults, container, child,
                   timer, calls, sigs, hist, leaked, internal, pure, run, invoked, startFailed,
                   abortCause>>

\* stopDockerContainer: Promise.race of container.stop() and
\* waitMs(TIMEOUTS.DOCKER_STOP).
StopDockerContainer ==
    /\ pc = "stopDocker"
    /\ timer' = "DOCKER_STOP"
    /\ pc' = "dockerStopWait"
    /\ UNCHANGED <<idx, cfg, target, result, targetResults, container, child,
                   calls, sigs, hist, leaked, internal, pure, run, invoked, startFailed, abortCause>>

\* container.stop({ remove: true }) settles first.
ContainerStopSettles ==
    /\ pc = "dockerStopWait"
    /\ \E ok \in BOOLEAN :
         IF ok
         THEN /\ container' = "removed"
              /\ pc' = "stopSettled"
              /\ timer' = "none"
              /\ hist' = [hist EXCEPT !.graceful = "resolved",
                                      !.stop = "resolved"]
         ELSE /\ pc' = "forceRemove"
              /\ timer' = "none"
              /\ hist' = [hist EXCEPT !.graceful = "rejected"]
              /\ UNCHANGED container
    /\ UNCHANGED <<idx, cfg, target, result, targetResults, child, calls,
                   sigs, leaked, internal, pure, run, invoked, startFailed, abortCause>>

\* waitMs(TIMEOUTS.DOCKER_STOP) elapses first: the race rejects.
DockerStopTimeout ==
    /\ pc = "dockerStopWait"
    /\ timer = "DOCKER_STOP"
    /\ pc' = "forceRemove"
    /\ timer' = "none"
    /\ hist' = [hist EXCEPT !.graceful = "timeout"]
    /\ UNCHANGED <<idx, cfg, target, result, targetResults, container, child,
                   calls, sigs, leaked, internal, pure, run, invoked, startFailed, abortCause>>

\* forceRemoveDockerContainer: Promise.race of `docker rm -f` and
\* waitMs(TIMEOUTS.DOCKER_FORCE_REMOVE).
ForceRemoveDockerContainer ==
    /\ pc = "forceRemove"
    /\ calls' = [calls EXCEPT !.forceRemove = @ + 1]
    /\ timer' = "DOCKER_FORCE_REMOVE"
    /\ pc' = "forceRemoveWait"
    /\ UNCHANGED <<idx, cfg, target, result, targetResults, container, child,
                   sigs, hist, leaked, internal, pure, run, invoked, startFailed, abortCause>>

\* `docker rm -f` exits: code 0 resolves, any other code rejects.
ForceRemoveExit ==
    /\ pc = "forceRemoveWait"
    /\ \E code \in ExitCodes :
         IF code = 0
         THEN container' = "removed" /\ StopSettles("resolved")
         ELSE UNCHANGED container /\ StopSettles("rejected")
    /\ UNCHANGED <<idx, cfg, target, result, targetResults, child, calls,
                   sigs, leaked, internal, pure, run, invoked, startFailed, abortCause>>

\* proc.on('error') of `docker rm -f`.
ForceRemoveError ==
    /\ pc = "forceRemoveWait"
    /\ StopSettles("rejected")
    /\ UNCHANGED <<idx, cfg, target, result, targetResults, container, child,
                   calls, sigs, leaked, internal, pure, run, invoked, startFailed, abortCause>>

\* waitMs(TIMEOUTS.DOCKER_FORCE_REMOVE) elapses first.
ForceRemoveTimeout ==
    /\ pc = "forceRemoveWait"
    /\ timer = "DOCKER_FORCE_REMOVE"
    /\ StopSettles("rejected")
    /\ UNCHANGED <<idx, cfg, target, result, targetResults, container, child,
                   calls, sigs, leaked, internal, pure, run, invoked, startFailed, abortCause>>

\* startProcessTarget.stop: no pid, nothing to do; else SIGTERM and
\* waitMs(TIMEOUTS.PROCESS_INITIAL_WAIT).
StopProcess ==
    /\ pc = "stopProcess"
    /\ IF ~child.pid
       THEN /\ StopSettles("resolved")
            /\ UNCHANGED <<child, sigs>>
       ELSE /\ Kill("SIGTERM")
            /\ timer' = "PROCESS_INITIAL_WAIT"
            /\ pc' = "graceWait"
            /\ UNCHANGED hist
    /\ UNCHANGED <<idx, cfg, target, result, targetResults, container, calls,
                   leaked, internal, pure, run, invoked, startFailed, abortCause>>

\* Mutant: the teardown inside the if (child.pid) block.
StopComposeDownOnlyWithPid ==
    /\ pc = "stopCompose"
    /\ IF child.pid
       THEN /\ Kill("SIGTERM")
            /\ timer' = "PROCESS_INITIAL_WAIT"
            /\ pc' = "graceWait"
            /\ UNCHANGED hist
       ELSE /\ StopSettles("resolved")
            /\ UNCHANGED <<child, sigs>>
    /\ UNCHANGED <<idx, cfg, target, result, targetResults, container, calls,
                   leaked, internal, pure, run, invoked, startFailed, abortCause>>

\* startDockerComposeTarget.stop: signal the `up` subprocess when it has a
\* pid, then tear the stack down.
StopCompose ==
    /\ pc = "stopCompose"
    /\ IF child.pid
       THEN /\ Kill("SIGTERM")
            /\ timer' = "PROCESS_INITIAL_WAIT"
            /\ pc' = "graceWait"
       ELSE /\ pc' = "composeDown"
            /\ UNCHANGED <<child, sigs, timer>>
    /\ UNCHANGED <<idx, cfg, target, result, targetResults, container, calls,
                   hist, leaked, internal, pure, run, invoked, startFailed, abortCause>>

\* The grace window is over: if (!child.killed) child.kill('SIGKILL').
\* The process handle then resolves, the compose handle goes on to the
\* teardown.
GraceElapsed ==
    /\ pc = "graceWait"
    /\ timer = "PROCESS_INITIAL_WAIT"
    /\ IF ~child.killed THEN Kill("SIGKILL") ELSE UNCHANGED <<child, sigs>>
    /\ timer' = "none"
    /\ hist' = [hist EXCEPT !.aliveAtGraceEnd = child.running,
                            !.stop = IF cfg = "process" THEN "resolved" ELSE @]
    /\ pc' = IF cfg = "process" THEN "stopSettled" ELSE "composeDown"
    /\ UNCHANGED <<idx, cfg, target, result, targetResults, container, calls,
                   leaked, internal, pure, run, invoked, startFailed, abortCause>>

\* dockerComposeDown / runDockerCompose: spawn `docker compose down`; no
\* timer is armed.
ComposeDown ==
    /\ pc = "composeDown"
    /\ calls' = [calls EXCEPT !.down = @ + 1]
    /\ pc' = "composeDownWait"
    /\ UNCHANGED <<idx, cfg, target, result, targetResults, container, child,
                   timer, sigs, hist, leaked, internal, pure, run, invoked, startFailed, abortCause>>

\* `docker compose down` exits: code 0 removed the stack; any other code
\* rejects, which stop() catches and logs.
ComposeDownExit ==
    /\ pc = "composeDownWait"
    /\ \E code \in ExitCodes :
         /\ container' = IF code = 0 /\ container = "running" THEN "removed"
                          ELSE container
         /\ hist' = [hist EXCEPT !.stop = "resolved",
                                 !.down = IF code = 0 THEN "ok" ELSE "failed"]
    /\ pc' = "stopSettled"
    /\ timer' = "none"
    /\ UNCHANGED <<idx, cfg, target, result, targetResults, child, calls,
                   sigs, leaked, internal, pure, run, invoked, startFailed, abortCause>>

\* proc.on('error') of `docker compose down`: caught and logged as well.
ComposeDownError ==
    /\ pc = "composeDownWait"
    /\ pc' = "stopSettled"
    /\ timer' = "none"
    /\ hist' = [hist EXCEPT !.stop = "resolved", !.down = "failed"]
    /\ UNCHANGED <<idx, cfg, target, result, targetResults, container, child,
                   calls, sigs, leaked, internal, pure, run, invoked, startFailed, abortCause>>

\* Mutant: await target.stop() without the .catch: a rejection thrown from
\* finally replaces the return value and rejects runTargetTests.
CleanupBoundaryPropagates ==
    /\ pc = "stopSettled"
    /\ IF hist.stop = "rejected"
       THEN Abort("cleanup")
       ELSE pc' = "return" /\ UNCHANGED abortCause
    /\ UNCHANGED <<idx, cfg, target, result, targetResults, container, child,
                   timer, calls, sigs, hist, leaked, internal, pure, run, invoked, startFailed>>

\* await target.stop().catch(err => console.error(...)): a rejection is
\* logged, runTargetTests returns what try/catch decided.
CleanupBoundary ==
    /\ pc = "stopSettled"
    /\ pc' = "return"
    /\ UNCHANGED <<idx, cfg, target, result, targetResults, container, child,
                   timer, calls, sigs, hist, leaked, internal, pure, run, invoked, startFailed, abortCause>>

\* runTests: if (result) targetResults.push(result); next target, or
\* finalizeRun after the last one.
NextTarget ==
    /\ pc = "return"
    /\ targetResults' = IF result = "entry" THEN Append(targetResults, idx)
                        ELSE targetResults
    /\ leaked' = IF ResourceAlive THEN leaked \cup {idx} ELSE leaked
    /\ idx' = idx + 1
    /\ pc' = IF idx = NumTargets THEN "finalize" ELSE "load"
    /\ cfg' = "none"
    /\ target' = FALSE
    /\ result' = "undefined"
    /\ container' = "none"
    /\ child' = NoChild
    /\ calls' = NoCalls
    /\ sigs' = <<>>
    /\ hist' = NoHist
    /\ UNCHANGED <<timer, invoked, startFailed, abortCause, internal, pure, run>>

\* generateReportsForTarget lines 173-178: the manifest entry of a target.
TargetResult(i) == [id |-> i, path |-> <<i, "results.json">>]

\* Mutant: the entries are listed newest first.
ManifestNewestFirst(results) ==
    [i \in DOMAIN results |-> TargetResult(results[Len(results) + 1 - i])]

\* finalizeRun: the `targets` of the manifest are targetResults as pushed.
ManifestTargets(results) == [i \in DOMAIN results |-> TargetResult(results[i])]

\* finalizeRun: writeManifest, then the summary; a rejected writeManifest
\* leaves runTests before the summary.
FinalizeRun ==
    /\ pc = "finalize"
    /\ \E ok \in BOOLEAN :
         IF ok
         THEN /\ pc' = "done"
              /\ run' = [run EXCEPT
                           !.manifests = Append(@, ManifestTargets(targetResults)),
                           !.summaries = @ + 1]
              /\ UNCHANGED abortCause
         ELSE Abort("manifest") /\ UNCHANGED run
    /\ UNCHANGED <<idx, cfg, target, result, targetResults, container, child,
                   timer, calls, sigs, hist, leaked, internal, pure, invoked, startFailed>>

Next ==
    \/ LoadRootConfig
    \/ RunInternalTests
    \/ InternalTestsExit
    \/ InternalTestsSpawnError
    \/ LoadServerConfig
    \/ StartTarget
    \/ ContainerStart
    \/ ComposeUp
    \/ WaitForHttp
    \/ WriteServerInfo
    \/ RunVitestForTarget
    \/ VitestExit
    \/ VitestSpawnError
    \/ GenerateReportsForTarget
    \/ CatchBlock
    \/ FinallyBlock
    \/ ChildExits
    \/ StopDockerContainer
    \/ ContainerStopSettles
    \/ DockerStopTimeout
    \/ ForceRemoveDockerContainer
    \/ ForceRemoveExit
    \/ ForceRemoveError
    \/ ForceRemoveTimeout
    \/ StopProcess
    \/ StopCompose
    \/ GraceElapsed
    \/ ComposeDown
    \/ ComposeDownExit
    \/ ComposeDownError
    \/ CleanupBoundary
    \/ NextTarget
    \/ FinalizeRun

Spec == Init /\ [][Next]_vars

\* What the event loop guarantees: the runner's own synchronous steps run,
\* file-system operations settle, and armed timers elapse.  Nothing makes a
\* container, a probe or a spawned command answer.
Fairness ==
    /\ WF_vars(LoadRootConfig)
    /\ WF_vars(RunInternalTests)
    /\ WF_vars(LoadServerConfig)
    /\ WF_vars(StartTarget)
    /\ WF_vars(WriteServerInfo)
    /\ WF_vars(RunVitestForTarget)
    /\ WF_vars(GenerateReportsForTarget)
    /\ WF_vars(CatchBlock)
    /\ WF_vars(FinallyBlock)
    /\ WF_vars(StopDockerContainer)
    /\ WF_vars(DockerStopTimeout)
    /\ WF_vars(ForceRemoveDockerContainer)
    /\ WF_vars(ForceRemoveTimeout)
    /\ WF_vars(StopProcess)
    /\ WF_vars(StopCompose)
    /\ WF_vars(GraceElapsed)
    /\ WF_vars(ComposeDown)
    /\ WF_vars(CleanupBoundary)
    /\ WF_vars(NextTarget)
    /\ WF_vars(FinalizeRun)

FairSpec == Spec /\ Fairness

(***************************************************************************)
(* Capability gating (src/runner/capabilities.ts, testHelpers.ts): a test  *)
(* file evaluates requires(R)(D) for the declared capabilities D of the    *)
(* target and registers its test through testIf; the test runner runs or   *)
(* skips it and writes the junit.xml the extractor reads.  The runner's    *)
(* variables stay at RunnerInit here.                                      *)
(***************************************************************************)
\* Longest requirement list and longest declared list drawn.
MaxReq == 2

MaxDecl == 2

\* Capability tokens: three of the Capability type, one in another case and
\* a vendor extension.
Capabilities ==
    {"core:health", "core:upload", "core:download", "CORE:UPLOAD",
     "vendor:x"}

\* The lists of at most n tokens.
RECURSIVE ListsUpTo(_, _)
ListsUpTo(S, n) ==
    IF n = 0 THEN {<<>>}
    ELSE LET shorter == ListsUpTo(S, n - 1)
         IN  shorter \cup {Append(l, x) : l \in shorter, x \in S}

\* String.prototype.toLowerCase on the tokens.
Lower(c) == IF c = "CORE:UPLOAD" THEN "core:upload" ELSE c

\* Mutant: tokens are compared without regard to case.
RECURSIVE IncludesIgnoringCase(_, _)
IncludesIgnoringCase(list, x) ==
    IF list = <<>> THEN FALSE
    ELSE Lower(Head(list)) = Lower(x) \/ IncludesIgnoringCase(Tail(list), x)

\* Array.prototype.includes on a list of strings.
RECURSIVE Includes(_, _)
Includes(list, x) ==
    IF list = <<>> THEN FALSE
    ELSE Head(list) = x \/ Includes(Tail(list), x)

\* requires(...caps)(serverCaps): caps.every(c => serverCaps.includes(c)).
RECURSIVE Requires(_, _)
Requires(caps, serverCaps) ==
    IF caps = <<>> THEN TRUE
    ELSE Includes(serverCaps, Head(caps)) /\ Requires(Tail(caps), serverCaps)

\* hasCapability(serverCaps, cap).
HasCapability(serverCaps, cap) == Includes(serverCaps, cap)

\* Nothing evaluated, registered or run yet.
NoGate == [requires |-> FALSE, has |-> {}, registered |-> "none",
           bodyRan |-> FALSE, junit |-> <<>>, tests |-> <<>>]

CapInit ==
    /\ RunnerInit
    /\ fn = "requires"
    /\ inp \in [caps : ListsUpTo(Capabilities, MaxReq),
                serverCaps : ListsUpTo(Capabilities, MaxDecl)]
    /\ out = NoGate

\* The test file evaluates requires(...caps)(serverCaps); `has` is the set
\* of tokens hasCapability(serverCaps, c) holds for.
EvalRequires ==
    /\ fn = "requires"
    /\ out' = [out EXCEPT
                 !.requires = Requires(inp.caps, inp.serverCaps),
                 !.has = {c \in Capabilities :
                              HasCapability(inp.serverCaps, c)}]
    /\ fn' = "testIf"
    /\ UNCHANGED <<inp, runner>>

\* Mutant: testIf registers every test with `it`.
TestIfAlwaysRuns ==
    /\ fn = "testIf"
    /\ out' = [out EXCEPT !.registered = "it"]
    /\ fn' = "vitest"
    /\ UNCHANGED <<inp, runner>>

\* testIf(condition): condition ? it : it.skip.
TestIf ==
    /\ fn = "testIf"
    /\ out' = [out EXCEPT !.registered = IF out.requires THEN "it"
                                         ELSE "it.skip"]
    /\ fn' = "vitest"
    /\ UNCHANGED <<inp, runner>>

\* The test runner: a test registered with `it` has its body run and is
\* reported passed or failed; one registered with `it.skip` is reported
\* with a skipped marker and its body is not called.
VitestRunsTest ==
    /\ fn = "vitest"
    /\ \E marker \in IF out.registered = "it"
                     THEN {<<>>,
                           <<Marker("failure", "body", Attr(<<"m">>),
                                    <<"t">>)>>}
                     ELSE {<<Marker("skipped", "self", NoAttr, <<>>)>>} :
         out' = [out EXCEPT
                   !.bodyRan = (out.registered = "it"),
                   !.junit = <<OpenTag(Attr(<<"a">>), Attr(<<"0">>))>>
                                \o marker \o <<CloseTag>>]
    /\ fn' = "extract"
    /\ UNCHANGED <<inp, runner>>

\* writeRunResultsFromJUnit reads the junit.xml of the test.
ExtractGated ==
    /\ fn = "extract"
    /\ out' = [out EXCEPT !.tests = ParseTestCases(out.junit)]
    /\ fn' = "recorded"
    /\ UNCHANGED <<inp, runner>>

CapNext == EvalRequires \/ TestIf \/ VitestRunsTest \/ ExtractGated

CapSpec == CapInit /\ [][CapNext]_vars

(***************************************************************************)
(* The extractor on a junit.xml of well-formed test cases: each entry is   *)
(* a self-closing test case or one with a body holding at most one failure *)
(* marker and at most one skipped marker.                                  *)
(***************************************************************************)
\* Most test cases in one junit.xml.
MaxEntries == 2

\* name attributes, by position in the file.
Letters == <<"a", "b", "c", "d", "e", "f">>

\* time attributes: none, or half a second.
Times == {NoAttr, Attr(<<"0", ".", "5">>)}

\* No marker, or a failure marker: bare, with body text, or with a message
\* attribute and body text.
FailureMarkers ==
    {<<>>,
     <<Marker("failure", "body", NoAttr, <<>>)>>,
     <<Marker("failure", "body", NoAttr, <<"t">>)>>,
     <<Marker("failure", "body", Attr(<<"m">>), <<"t">>)>>}

\* No marker, a self-closing skipped marker without or with a message, or
\* a skipped marker with body text or a blank body.
SkippedMarkers ==
    {<<>>,
     <<Marker("skipped", "self", NoAttr, <<>>)>>,
     <<Marker("skipped", "self", Attr(<<"m">>), <<>>)>>,
     <<Marker("skipped", "body", NoAttr, <<"t">>)>>,
     <<Marker("skipped", "body", NoAttr, <<" ">>)>>}

Entries ==
    [form : {"self"}, time : Times, failure : {<<>>}, skipped : {<<>>}]
    \cup
    [form : {"body"}, time : Times, failure : FailureMarkers,
     skipped : SkippedMarkers]

\* The tags of the i-th entry.
EntryTags(e, i) ==
    IF e.form = "self" THEN <<SelfTag(Attr(<<Letters[i]>>), e.time)>>
    ELSE <<OpenTag(Attr(<<Letters[i]>>), e.time)>>
            \o e.failure \o e.skipped \o <<CloseTag>>

\* The junit.xml holding the entries from the i-th on.
RECURSIVE Serialise(_, _)
Serialise(entries, i) ==
    IF i > Len(entries) THEN <<>>
    ELSE EntryTags(entries[i], i) \o Serialise(entries, i + 1)

ParseInit ==
    /\ RunnerInit
    /\ fn = "parse"
    /\ inp \in ListsUpTo(Entries, MaxEntries)
    /\ out = [tests |-> <<>>, summary |-> NoSummary]

\* writeRunResultsFromJUnit on the file: parseTestCases, then the summary.
WriteRunResultsFromJUnit ==
    /\ fn = "parse"
    /\ out' = RunResults(Serialise(inp, 1))
    /\ fn' = "parsed"
    /\ UNCHANGED <<inp, runner>>

ParseNext == WriteRunResultsFromJUnit

ParseSpec == ParseInit /\ [][ParseNext]_vars

(***************************************************************************)
(* parseDuration on time attributes.                                       *)
(***************************************************************************)
\* Longest time attribute drawn.
MaxTimeLen == 5

\* The characters of a time attribute: digits (none of them 5 or 0, so
\* that no product lies half-way between two integers, where the double
\* nearest to it decides), the point, and a sign that is junk anywhere but
\* in front.
TimeChars == {"1", "2", "3", "4", "9", ".", "-"}

DurInit ==
    /\ RunnerInit
    /\ fn = "parseDuration"
    /\ inp \in {NoAttr} \cup {Attr(s) : s \in ListsUpTo(TimeChars, MaxTimeLen)}
    /\ out = 0

\* parseDuration(attrs.time).
ApplyParseDuration ==
    /\ fn = "parseDuration"
    /\ out' = ParseDuration(inp)
    /\ fn' = "duration"
    /\ UNCHANGED <<inp, runner>>

DurNext == ApplyParseDuration

DurSpec == DurInit /\ [][DurNext]_vars

(***************************************************************************)
(* The extractor on escaped text: a test case with one marker whose        *)
(* message sits in the message attribute, in the body, or in the body      *)
(* inside a CDATA wrapper.                                                 *)
(***************************************************************************)
\* Most pieces a message is put together from.
MaxPieces == 3

\* The five escape sequences, as they stand in the file.
EscLt == <<"&", "l", "t", ";">>

EscGt == <<"&", "g", "t", ";">>

EscQuot == <<"&", "q", "u", "o", "t", ";">>

EscApos == <<"&", "#", "0", "3", "9", ";">>

EscAmp == <<"&", "a", "m", "p", ";">>

\* The pieces of a message: the escape sequences and two stretches of
\* plain text, one of which reads like the tail of an escape sequence.
Pieces ==
    {EscLt, EscGt, EscQuot, EscApos, EscAmp, <<"l", "t", ";">>,
     <<"s", "c", "r", "i", "p", "t">>}

\* The characters of the pieces, in order.
RECURSIVE Flatten(_)
Flatten(pieces) ==
    IF pieces = <<>> THEN <<>> ELSE Head(pieces) \o Flatten(Tail(pieces))

\* The junit.xml of one test case whose marker carries the text.
EscapedXml(kind, where, text) ==
    <<OpenTag(Attr(<<"a">>), NoAttr),
      CASE where = "attr" ->
               Marker(kind, IF kind = "failure" THEN "body" ELSE "self",
                      Attr(text), <<>>)
        [] where = "body" -> Marker(kind, "body", NoAttr, text)
        [] where = "cdata" ->
               Marker(kind, "body", NoAttr,
                      <<"<![CDATA[">> \o text \o <<"]]>">>),
      CloseTag>>

DecodeInit ==
    /\ RunnerInit
    /\ fn = "decode"
    /\ inp \in [kind : {"failure", "skipped"},
                where : {"attr", "body", "cdata"},
                pieces : ListsUpTo(Pieces, MaxPieces)]
    /\ out = <<>>

\* parseTestCases on the file.
ExtractEscaped ==
    /\ fn = "decode"
    /\ out' = ParseTestCases(EscapedXml(inp.kind, inp.where,
                                        Flatten(inp.pieces)))
    /\ fn' = "decoded"
    /\ UNCHANGED <<inp, runner>>

DecodeNext == ExtractEscaped

DecodeSpec == DecodeInit /\ [][DecodeNext]_vars

(***************************************************************************)
(* The extractor on malformed text: any sequence of opening, self-closing  *)
(* and closing tags and markers.                                           *)
(***************************************************************************)
\* Most tags in a malformed junit.xml.
MaxTags == 4

TagKinds == {"open", "self", "close", "failure", "skipped"}

\* The i-th tag of the file; a test case is named by its position.
KindTag(k, i) ==
    CASE k = "open"    -> OpenTag(Attr(<<Letters[i]>>), NoAttr)
      [] k = "self"    -> SelfTag(Attr(<<Letters[i]>>), NoAttr)
      [] k = "close"   -> CloseTag
      [] k = "failure" -> Marker("failure", "body", NoAttr, <<"t">>)
      [] k = "skipped" -> Marker("skipped", "self", NoAttr, <<>>)

KindsXml(kinds) == [i \in DOMAIN kinds |-> KindTag(kinds[i], i)]

MalformedInit ==
    /\ RunnerInit
    /\ fn = "malformed"
    /\ inp \in ListsUpTo(TagKinds, MaxTags)
    /\ out = <<>>

\* parseTestCases on the text.
ParseMalformed ==
    /\ fn = "malformed"
    /\ out' = ParseTestCases(KindsXml(inp))
    /\ fn' = "scanned"
    /\ UNCHANGED <<inp, runner>>

MalformedNext == ParseMalformed

MalformedSpec == MalformedInit /\ [][MalformedNext]_vars

(***************************************************************************)
(* Emitting the reports of a target: feature-matrix.md and results.json    *)
(* written into a directory of the file system.                            *)
(***************************************************************************)
\* Most records handed to writeFeatureMatrix.
MaxTests == 2

\* Most emissions of each report into the same directory.
MaxEmit == 2

\* Tokens in the requirements of the records.
RequiredCaps == {"core:upload", "CORE:UPLOAD", "core:health"}

\* The capabilities a target declares: none, one that is required, and two
\* of which one is required by no record drawn.
DeclaredLists == {<<>>, <<"core:upload">>, <<"core:health", "vendor:x">>}

\* outDir, one component per directory.
OutDir == <<"artifacts", "run", "t1">>

\* A path and the directories above it.
Prefixes(path) == {SubSeq(path, 1, n) : n \in 1..Len(path)}

\* The directories present before the first emission.
InitialDirs == {{}, Prefixes(SubSeq(OutDir, 1, 2)), Prefixes(OutDir)}

\* junit.xml files the bundle is made from.
EmitJUnit ==
    {<<SelfTag(Attr(<<"a">>), Attr(<<"1">>))>>,
     <<OpenTag(Attr(<<"a">>), NoAttr),
       Marker("failure", "body", Attr(<<"m">>), <<"t">>), CloseTag>>}

\* The tokens in the order of their UTF-16 code units, the order of
\* Array.prototype.sort without a comparator.
CodeUnitOrder ==
    <<"CORE:UPLOAD", "core:download", "core:health", "core:upload",
      "vendor:x">>

Rank(cap) == CHOOSE i \in DOMAIN CodeUnitOrder : CodeUnitOrder[i] = cap

\* Mutant: every occurrence of a token is kept.
AddKeepingDuplicates(list, cap) == Append(list, cap)

\* Set.prototype.add: a Set keeps its members in insertion order, once.
SetAdd(list, cap) == IF Includes(list, cap) THEN list ELSE Append(list, cap)

RECURSIVE AddAll(_, _)
AddAll(list, caps) ==
    IF caps = <<>> THEN list ELSE AddAll(SetAdd(list, Head(caps)), Tail(caps))

\* writeFeatureMatrix lines 13-18: the tokens of test.requirements of every
\* record; a record is given by its requirements.
RECURSIVE AllRequiredCaps(_, _)
AllRequiredCaps(tests, acc) ==
    IF tests = <<>> THEN acc
    ELSE AllRequiredCaps(Tail(tests), AddAll(acc, Head(tests)))

RECURSIVE Insert(_, _)
Insert(sorted, cap) ==
    IF sorted = <<>> THEN <<cap>>
    ELSE IF Rank(cap) < Rank(Head(sorted)) THEN <<cap>> \o sorted
    ELSE <<Head(sorted)>> \o Insert(Tail(sorted), cap)

\* Array.from(allRequiredCaps).sort().
RECURSIVE Sort(_)
Sort(list) == IF list = <<>> THEN <<>> ELSE Insert(Sort(Tail(list)), Head(list))

\* writeFeatureMatrix lines 10-41: the text of feature-matrix.md, its rows
\* cell by cell ("Y" and "N" stand for the check mark and the cross).
FeatureMatrix(outDir, capabilities, tests) ==
    LET sortedCaps == Sort(AllRequiredCaps(tests, <<>>))
    IN  [target   |-> outDir[Len(outDir)],
         declared |-> Len(capabilities),
         rows     |-> [i \in DOMAIN sortedCaps |->
                          [cap       |-> sortedCaps[i],
                           supported |-> IF Includes(capabilities, sortedCaps[i])
                                         THEN "Y" ELSE "N",
                           notes     |-> ""]]]

\* Mutant: mkdir without { recursive: true } makes the last directory only,
\* and only under an existing parent.
MkdirPlain(dirs, path) ==
    IF Len(path) = 1 \/ SubSeq(path, 1, Len(path) - 1) \in dirs
    THEN dirs \cup {path} ELSE dirs

\* mkdir(dirname(file), { recursive: true }).
Mkdir(dirs, path) == dirs \cup Prefixes(path)

\* No file of that name.
NoFile == [present |-> FALSE, text |-> <<>>]

\* writeFile(file, text, 'utf8') replaces the file; it rejects when the
\* directory of the file does not exist.
WriteFile(dirs, dir, old, text) ==
    IF dir \in dirs THEN [present |-> TRUE, text |-> text] ELSE old

EmitInit ==
    /\ RunnerInit
    /\ fn = "emit"
    /\ inp \in [capabilities : DeclaredLists,
                tests : ListsUpTo(ListsUpTo(RequiredCaps, MaxReq), MaxTests),
                junit : EmitJUnit,
                dirs : InitialDirs]
    /\ out = [dirs |-> inp.dirs,
              matrix |-> NoFile, bundle |-> NoFile,
              firstMatrix |-> NoFile, firstBundle |-> NoFile,
              matrixWrites |-> 0, bundleWrites |-> 0, rejected |-> FALSE]

\* writeFeatureMatrix(outDir, capabilities, tests).
WriteFeatureMatrix ==
    /\ fn = "emit"
    /\ out.matrixWrites < MaxEmit
    /\ LET dirs == Mkdir(out.dirs, OutDir)
           file == WriteFile(dirs, OutDir, out.matrix,
                             FeatureMatrix(OutDir, inp.capabilities, inp.tests))
       IN  out' = [out EXCEPT !.dirs = dirs,
                              !.matrix = file,
                              !.firstMatrix = IF out.matrixWrites = 0 THEN file ELSE @,
                              !.matrixWrites = @ + 1,
                              !.rejected = @ \/ OutDir \notin dirs]
    /\ UNCHANGED <<fn, inp, runner>>

\* writeRunResultsFromJUnit({ junitPath, outDir, meta }): the payload is the
\* meta, the summary and the records.
WriteBundle ==
    /\ fn = "emit"
    /\ out.bundleWrites < MaxEmit
    /\ LET dirs == Mkdir(out.dirs, OutDir)
           file == WriteFile(dirs, OutDir, out.bundle,
                             [target |-> OutDir[Len(OutDir)],
                              capabilities |-> inp.capabilities,
                              results |-> RunResults(inp.junit)])
       IN  out' = [out EXCEPT !.dirs = dirs,
                              !.bundle = file,
                              !.firstBundle = IF out.bundleWrites = 0 THEN file ELSE @,
                              !.bundleWrites = @ + 1,
                              !.rejected = @ \/ OutDir \notin dirs]
    /\ UNCHANGED <<fn, inp, runner>>

EmitNext == WriteFeatureMatrix \/ WriteBundle

EmitSpec == EmitInit /\ [][EmitNext]_vars

(***************************************************************************)
(* The log capture of a spawned target: the 'data' handlers of the child's *)
(* stdout and stderr.                                                      *)
(***************************************************************************)
\* Most 'data' events of one child.
MaxEvents == 1002

\* LOGGING.MAX_LOG_ENTRIES.
MAX_LOG_ENTRIES == 1000

\* The strategies that spawn a child with piped output.
PipedTypes == {"process", "docker-compose"}

\* spawn(..., { stdio: 'pipe' }): const logs = []; the n-th chunk the child
\* writes is named by n.
LogInit ==
    /\ RunnerInit
    /\ fn = "logs"
    /\ inp \in PipedTypes
    /\ out = [logs |-> <<>>, n |-> 0, console |-> "none"]

\* The handler body: the chunk is pushed while logs.length is below the
\* limit, and echoed to the console.
OnData(console) ==
    /\ fn = "logs"
    /\ out.n < MaxEvents
    /\ out' = [logs    |-> IF Len(out.logs) < MAX_LOG_ENTRIES
                           THEN Append(out.logs, out.n + 1) ELSE out.logs,
               n       |-> out.n + 1,
               console |-> console]
    /\ UNCHANGED <<fn, inp, runner>>

\* child.stdout.on('data', ...).
StdoutData == OnData("log")

\* child.stderr.on('data', ...).
StderrData == OnData("error")

LogNext == StdoutData \/ StderrData

LogSpec == LogInit /\ [][LogNext]_vars

(***************************************************************************)
(* A caller that invokes the stop() handle of a StartedTarget once more    *)
(* after its first invocation has settled.                                 *)
(***************************************************************************)
StopTwiceInit ==
    /\ RunnerInit
    /\ fn = "stopTwice"
    /\ inp = <<>>
    /\ out = <<>>

\* stop() again: the handles of startDockerTarget, startProcessTarget and
\* startDockerComposeTarget keep no record of having run, so the second
\* invocation enters the same code as the first.
StopAgain ==
    /\ fn = "stopTwice"
    /\ pc = "stopSettled"
    /\ calls.stop = 1
    /\ calls' = [calls EXCEPT !.stop = @ + 1]
    /\ pc' = StopEntry(cfg)
    /\ UNCHANGED <<idx, cfg, target, result, targetResults, container, child,
                   timer, sigs, hist, leaked, internal, pure, run, invoked,
                   startFailed, abortCause>>

StopTwiceNext == Next \/ StopAgain

StopTwiceSpec == StopTwiceInit /\ [][StopTwiceNext]_vars

(***************************************************************************)
(* waitForHttp: the readiness probe, on a clock of milliseconds that       *)
(* starts with the probe.                                                  *)
(***************************************************************************)
\* The last instant of the clock.
MaxNow == 2100

\* TIMEOUTS.HEALTH_CHECK_REQUEST.
HEALTH_CHECK_REQUEST == 2000

\* TIMEOUTS.HEALTH_CHECK_RETRY.
HEALTH_CHECK_RETRY == 250

\* The clock advances in fifths of the retry interval.
ClockStep == HEALTH_CHECK_RETRY \div 5

\* timeoutMs: none, one retry interval, two.
ProbeTimeouts == {0, HEALTH_CHECK_RETRY, 2 * HEALTH_CHECK_RETRY}

\* The instant from which the endpoint answers with the expected status,
\* or never.
ReadyTimes == {[ever |-> TRUE, at |-> 0], [ever |-> TRUE, at |-> 300],
               [ever |-> TRUE, at |-> 600], [ever |-> FALSE, at |-> 0]}

\* What an attempt can observe before the endpoint is ready: the 'error'
\* event of the request (connection refused, reset or timed out) or another
\* status.
AttemptFailures == {"ECONNREFUSED", "ECONNRESET", "ETIMEDOUT", "got 503"}

\* The endpoint answers a request with the expected status.
EndpointReady(now) == inp.readyAt.ever /\ now >= inp.readyAt.at

\* const start = Date.now(); let lastError = null; the while loop is about
\* to test its condition.
ProbeInit ==
    /\ RunnerInit
    /\ fn = "probe"
    /\ inp \in [timeoutMs : ProbeTimeouts, readyAt : ReadyTimes]
    /\ out = [now |-> 0, phase |-> "loopHead", lastError |-> "none",
              observed |-> "none", attempts |-> 0, sentAt |-> 0, wake |-> 0,
              message |-> "none"]

\* while (Date.now() - start < timeoutMs): the next attempt is sent, or the
\* loop is left and the health-check error is thrown with
\* lastError?.message ?? 'timeout'.
LoopHead ==
    /\ fn = "probe"
    /\ out.phase = "loopHead"
    /\ out' = IF out.now < inp.timeoutMs
              THEN [out EXCEPT !.phase = "inFlight", !.attempts = @ + 1,
                               !.sentAt = out.now]
              ELSE [out EXCEPT !.phase = "threw",
                               !.message = IF out.lastError = "none"
                                           THEN "timeout" ELSE out.lastError]
    /\ UNCHANGED <<fn, inp, runner>>

\* Mutant: the error of an attempt is thrown on at once.
AttemptFailedRethrows(failure) ==
    [out EXCEPT !.phase = "threw", !.observed = failure, !.message = failure]

\* The attempt rejected, or resolved with another status: lastError is set
\* and waitMs(TIMEOUTS.HEALTH_CHECK_RETRY) is awaited.
AttemptFailed(failure) ==
    [out EXCEPT !.phase = "sleeping", !.observed = failure,
                !.lastError = failure,
                !.wake = out.now + HEALTH_CHECK_RETRY]

\* The request in flight settles, at any instant (req.setTimeout has no
\* handler, so nothing settles it from this side): with the expected
\* status waitForHttp returns at once.
AttemptSettles ==
    /\ fn = "probe"
    /\ out.phase = "inFlight"
    /\ IF EndpointReady(out.now)
       THEN out' = [out EXCEPT !.phase = "returned", !.observed = "expected"]
       ELSE \E failure \in AttemptFailures : out' = AttemptFailed(failure)
    /\ UNCHANGED <<fn, inp, runner>>

\* The timer of waitMs fires.
RetryTimer ==
    /\ fn = "probe"
    /\ out.phase = "sleeping"
    /\ out.now = out.wake
    /\ out' = [out EXCEPT !.phase = "loopHead"]
    /\ UNCHANGED <<fn, inp, runner>>

\* Time passes while a request is in flight or the retry timer is armed.
ClockTick ==
    /\ fn = "probe"
    /\ \/ out.phase = "inFlight"
       \/ out.phase = "sleeping" /\ out.now < out.wake
    /\ out.now + ClockStep <= MaxNow
    /\ out' = [out EXCEPT !.now = @ + ClockStep]
    /\ UNCHANGED <<fn, inp, runner>>

ProbeNext == LoopHead \/ AttemptSettles \/ RetryTimer \/ ClockTick

ProbeSpec == ProbeInit /\ [][ProbeNext]_vars

(***************************************************************************)
(* The status of one test case, from the markers in its body.              *)
(***************************************************************************)
\* Most markers in the body of the test case.
MaxMarkers == 3

\* Failure and skip markers, each with an end tag and self-closing.
StatusMarkers ==
    {Marker("failure", "body", NoAttr, <<"t">>),
     Marker("failure", "self", Attr(<<"m">>), <<>>),
     Marker("skipped", "body", NoAttr, <<"t">>),
     Marker("skipped", "self", NoAttr, <<>>)}

StatusInit ==
    /\ RunnerInit
    /\ fn = "status"
    /\ inp \in ListsUpTo(StatusMarkers, MaxMarkers)
    /\ out = <<>>

\* parseTestCases on one test case with these markers.
ClassifyTestCase ==
    /\ fn = "status"
    /\ out' = ParseTestCases(<<OpenTag(Attr(<<"a">>), NoAttr)>> \o inp
                                \o <<CloseTag>>)
    /\ fn' = "classified"
    /\ UNCHANGED <<inp, runner>>

StatusNext == ClassifyTestCase

StatusSpec == StatusInit /\ [][StatusNext]_vars

(***************************************************************************)
(* The ids parseTestCases gives the records of one file.                   *)
(***************************************************************************)
\* Most test cases in the file.
MaxCases == 3

\* name attributes: absent, empty, a name, a name that is a number.
CaseNames == {NoAttr, Attr(<<>>), Attr(<<"a">>), Attr(<<"2">>)}

\* classname attributes: absent, empty, a suite.
ClassNames == {NoAttr, Attr(<<>>), Attr(<<"s">>)}

\* A number below ten in a template literal.
NumberText(n) == <<SubSeq(<<"1", "2", "3", "4", "5", "6", "7", "8", "9">>, n, n)[1]>>

\* parseTestCases lines 160-163: the id of the record pushed as the n-th,
\* `${idBase}#${attrs.name ?? n}` with idBase = attrs.classname ||
\* attrs.name || `test-${n}` (an absent or empty attribute is falsy).
TestId(attrs, n) ==
    LET idBase == IF attrs.classname.present /\ attrs.classname.s # <<>>
                  THEN attrs.classname.s
                  ELSE IF attrs.name.present /\ attrs.name.s # <<>>
                  THEN attrs.name.s
                  ELSE <<"t", "e", "s", "t", "-">> \o NumberText(n)
    IN  idBase \o <<"#">> \o
            (IF attrs.name.present THEN attrs.name.s ELSE NumberText(n))

IdInit ==
    /\ RunnerInit
    /\ fn = "ids"
    /\ inp \in ListsUpTo([classname : ClassNames, name : CaseNames], MaxCases)
    /\ out = <<>>

\* The while loop of parseTestCases: every match is pushed, so the n-th
\* test case is given its id with tests.length + 1 = n.
AssignIds ==
    /\ fn = "ids"
    /\ out' = [n \in DOMAIN inp |-> TestId(inp[n], n)]
    /\ fn' = "identified"
    /\ UNCHANGED <<inp, runner>>

IdNext == AssignIds

IdSpec == IdInit /\ [][IdNext]_vars

(***************************************************************************)
(* The run pipeline from the tests' requirements to the coverage table:    *)
(* gated tests are run, their junit.xml is extracted, and the records are  *)
(* handed to writeFeatureMatrix.                                           *)
(***************************************************************************)
\* parseTestCases line 169: the requirements of a record it builds.
Requirements(record) == <<>>

\* The test case the test runner reports for the i-th test: run when the
\* target declares what it requires, skipped otherwise.
RECURSIVE GatedJUnit(_, _, _)
GatedJUnit(tests, serverCaps, i) ==
    IF i > Len(tests) THEN <<>>
    ELSE <<OpenTag(Attr(<<Letters[i]>>), NoAttr)>>
            \o (IF Requires(tests[i], serverCaps) THEN <<>>
                ELSE <<Marker("skipped", "self", NoAttr, <<>>)>>)
            \o <<CloseTag>>
            \o GatedJUnit(tests, serverCaps, i + 1)

\* A target's declared capabilities and the requirements of its tests.
PipelineInit ==
    /\ RunnerInit
    /\ fn = "pipeline"
    /\ inp \in [capabilities : DeclaredLists,
                tests : ListsUpTo(ListsUpTo(RequiredCaps, MaxReq), MaxTests)]
    /\ out = [junit |-> <<>>, requirements |-> <<>>, matrix |-> NoFile]

\* runVitestForTarget: the test runner writes junit.xml.
RunGatedTests ==
    /\ fn = "pipeline"
    /\ out' = [out EXCEPT !.junit = GatedJUnit(inp.tests, inp.capabilities, 1)]
    /\ fn' = "reports"
    /\ UNCHANGED <<inp, runner>>

\* generateReportsForTarget: writeRunResultsFromJUnit, then
\* writeFeatureMatrix(dir, serverConfig.capabilities, results.tests).
EmitCoverage ==
    /\ fn = "reports"
    /\ LET tests == ParseTestCases(out.junit)
           requirements == [i \in DOMAIN tests |-> Requirements(tests[i])]
       IN  out' = [out EXCEPT
                     !.requirements = requirements,
                     !.matrix = [present |-> TRUE,
                                 text |-> FeatureMatrix(OutDir, inp.capabilities,
                                                        requirements)]]
    /\ fn' = "emitted"
    /\ UNCHANGED <<inp, runner>>

PipelineNext == RunGatedTests \/ EmitCoverage

PipelineSpec == PipelineInit /\ [][PipelineNext]_vars

(***************************************************************************)
(* startDockerTarget: the base URL of a container target, its port         *)
(* placeholders replaced by the mapped host ports.                         *)
(***************************************************************************)
\* Most pieces of a base-URL template.
MaxUrlPieces == 3

\* The container ports a configuration can declare.
ContainerPorts == {80, 81}

\* start.ports: none, one, or two in either order.
PortLists == {<<>>, <<80>>, <<81>>, <<80, 81>>, <<81, 80>>}

\* The text `${PORT_<port>}`, one symbol of a template.
Placeholder(port) == IF port = 80 THEN "${PORT_80}" ELSE "${PORT_81}"

\* String(started.getMappedPort(port)), one symbol of a URL.
MappedPort(port) == IF port = 80 THEN "32768" ELSE "32769"

\* The pieces of a template: plain text and the placeholders.
UrlPieces == {"h"} \cup {Placeholder(p) : p \in ContainerPorts}

\* String.prototype.replace with a string pattern: the first occurrence
\* only.
RECURSIVE ReplaceFirst(_, _, _)
ReplaceFirst(s, pat, rep) ==
    IF s = <<>> THEN s
    ELSE IF Head(s) = pat THEN <<rep>> \o Tail(s)
    ELSE <<Head(s)>> \o ReplaceFirst(Tail(s), pat, rep)

\* The loop over Object.entries(portMappings): one replace per declared
\* port.
RECURSIVE ResolveBaseUrl(_, _)
ResolveBaseUrl(baseUrl, ports) ==
    IF ports = <<>> THEN baseUrl
    ELSE ResolveBaseUrl(ReplaceFirst(baseUrl, Placeholder(Head(ports)),
                                     MappedPort(Head(ports))),
                        Tail(ports))

UrlInit ==
    /\ RunnerInit
    /\ fn = "baseUrl"
    /\ inp \in [baseUrl : ListsUpTo(UrlPieces, MaxUrlPieces), ports : PortLists]
    /\ out = <<>>

\* startDockerTarget lines 88-102.
SubstitutePorts ==
    /\ fn = "baseUrl"
    /\ out' = ResolveBaseUrl(inp.baseUrl, inp.ports)
    /\ fn' = "resolved"
    /\ UNCHANGED <<inp, runner>>

UrlNext == SubstitutePorts

UrlSpec == UrlInit /\ [][UrlNext]_vars

(***************************************************************************)
(* The arrays handed to the capability predicates: the requirement list    *)
(* captured by requires(...caps) and the declared list serverCaps, as they *)
(* are after each evaluation.                                              *)
(***************************************************************************)
\* Most evaluations of the predicates on the same arrays.
MaxEvals == 2

\* Mutant: the token is looked up and spliced out of the array.
ArrayIncludesSplicing(array, x) ==
    [value |-> Includes(array, x),
     array |-> IF Includes(array, x)
               THEN LET i == CHOOSE i \in DOMAIN array :
                                 array[i] = x /\ \A j \in 1..(i - 1) : array[j] # x
                    IN  SubSeq(array, 1, i - 1) \o SubSeq(array, i + 1, Len(array))
               ELSE array]

\* Array.prototype.includes: the value found, and the array as the call
\* leaves it.
ArrayIncludes(array, x) == [value |-> Includes(array, x), array |-> array]

\* caps.every(c => serverCaps.includes(c)) from the i-th token on: the
\* value, and serverCaps as the calls leave it; every stops at the first
\* token not included.
RECURSIVE EveryIncluded(_, _, _)
EveryIncluded(caps, i, serverCaps) ==
    IF i > Len(caps) THEN [value |-> TRUE, array |-> serverCaps]
    ELSE LET found == ArrayIncludes(serverCaps, caps[i])
         IN  IF found.value THEN EveryIncluded(caps, i + 1, found.array)
             ELSE [value |-> FALSE, array |-> found.array]

EvalInit ==
    /\ RunnerInit
    /\ fn = "evaluate"
    /\ inp \in [caps : ListsUpTo(RequiredCaps, MaxReq),
                serverCaps : ListsUpTo(RequiredCaps, MaxDecl)]
    /\ out = [caps |-> inp.caps, serverCaps |-> inp.serverCaps,
              value |-> FALSE, evals |-> 0]

\* requires(...caps)(serverCaps) is evaluated.
EvaluateRequires ==
    /\ fn = "evaluate"
    /\ out.evals < MaxEvals
    /\ LET every == EveryIncluded(out.caps, 1, out.serverCaps)
       IN  out' = [out EXCEPT !.value = every.value,
                              !.serverCaps = every.array,
                              !.evals = @ + 1]
    /\ UNCHANGED <<fn, inp, runner>>

\* hasCapability(serverCaps, cap) is evaluated.
EvaluateHasCapability ==
    /\ fn = "evaluate"
    /\ out.evals < MaxEvals
    /\ \E cap \in RequiredCaps :
         LET found == ArrayIncludes(out.serverCaps, cap)
         IN  out' = [out EXCEPT !.value = found.value,
                                !.serverCaps = found.array,
                                !.evals = @ + 1]
    /\ UNCHANGED <<fn, inp, runner>>

EvalNext == EvaluateRequires \/ EvaluateHasCapability

EvalSpec == EvalInit /\ [][EvalNext]_vars

(***************************************************************************)
(* Properties.                                                             *)
(***************************************************************************)

Range(f) == {f[i] : i \in DOMAIN f}

\* runTargetTests has returned for the current target.
Returned == pc = "return"

\* The positions inside a stop() handle, before it settles.
StopPositions ==
    {"stopDocker", "dockerStopWait", "forceRemove", "forceRemoveWait",
     "stopProcess", "stopCompose", "graceWait", "composeDown",
     "composeDownWait"}

\* C1: when runTargetTests returns, stop() of a target whose startTarget
\* resolved has been invoked exactly once and has settled, whichever of
\* the metadata write, the test run or the report generation threw; it is
\* never invoked twice, and never for a target whose start did not resolve.
C1_StopExactlyOnce ==
    /\ calls.stop <= 1
    /\ calls.stop = 1 => hist.start = "resolved"
    /\ (Returned /\ hist.start = "resolved") =>
           (calls.stop = 1 /\ hist.stop # "none")

\* C1 witness: the test run threw, and stop() has run once at the return.
C1_Witness ==
    /\ Returned
    /\ calls.vitest = 1
    /\ hist.reports = "none"
    /\ calls.stop = 1

\* C2: once startTarget has rejected, no container, stack or child process
\* it created is still alive.
C2_NoResourceSurvivesFailedStart ==
    (hist.start = "rejected" /\ pc \in {"catch", "finally", "return"}) =>
        ~ResourceAlive

\* C3: startTarget of target N+1 is invoked only after stop() of target N
\* has settled, so that at most one target's container, stack or child
\* process is alive at any time.
C3_AtMostOneAlive ==
    /\ pc = "startTarget" => (calls.stop = 0 /\ timer = "none")
    /\ Cardinality(leaked \cup (IF ResourceAlive THEN {idx} ELSE {})) <= 1

\* C4: a target whose startTarget rejected gets no test run, no report and
\* no manifest entry; the rejection ends in the catch block, the loop goes
\* on to the next target, and a run that reaches finalizeRun has invoked
\* startTarget for every configured target.
C4_StartFailureAbortsOnlyThatTarget ==
    /\ hist.start = "rejected" =>
           /\ calls.vitest = 0
           /\ hist.reports = "none"
           /\ ~hist.bundle
           /\ result = "undefined"
    /\ \A k \in startFailed :
           /\ k \notin Range(targetResults)
           /\ k < idx \/ (k = idx /\ pc \in {"catch", "finally", "return"})
    /\ pc \in {"finalize", "done"} => invoked = Targets

\* C4 witness: the first target failed to start and startTarget has been
\* invoked for the second.
C4_Witness ==
    /\ 1 \in startFailed
    /\ idx = 2
    /\ calls.start = 1

\* C5: a rejection of stop() is caught at the cleanup boundary: control
\* goes on to the return with the value try/catch decided, the entry of a
\* target whose reports were produced is pushed, and the loop goes on.
C5_CleanupFailureSwallowed ==
    /\ [](hist.stop = "rejected" =>
             /\ pc \in {"stopSettled", "return"}
             /\ result = (IF hist.reports = "entry" THEN "entry"
                          ELSE "undefined"))
    /\ [][(pc = "stopSettled" /\ hist.stop = "rejected") =>
             (pc' = "return" /\ result' = result)]_vars
    /\ [][(pc = "return" /\ hist.stop = "rejected") =>
             /\ pc' \in {"load", "finalize"}
             /\ targetResults' = IF hist.reports = "entry"
                                 THEN Append(targetResults, idx)
                                 ELSE targetResults]_vars

\* C5 witness: stop() rejected and the target's entry is returned.
C5_Witness ==
    /\ Returned
    /\ hist.stop = "rejected"
    /\ result = "entry"

\* C6: stop() of a container target arms the DOCKER_STOP timer for the
\* graceful stop; the forced removal runs exactly when the graceful stop
\* rejected or timed out, under the DOCKER_FORCE_REMOVE timer; and stop()
\* settles whether or not container.stop() or `docker rm -f` ever return.
C6_DockerStopEscalates ==
    /\ [](pc = "dockerStopWait" => timer = "DOCKER_STOP")
    /\ [](pc = "forceRemoveWait" =>
             timer = "DOCKER_FORCE_REMOVE" /\ calls.forceRemove = 1)
    /\ []((cfg = "docker" /\ pc = "stopSettled") =>
             (calls.forceRemove = 1 <=>
                  hist.graceful \in {"rejected", "timeout"}))
    /\ (pc \in {"stopDocker", "dockerStopWait", "forceRemove",
                "forceRemoveWait"}) ~> (pc = "stopSettled")

\* C6 witness: the graceful stop timed out, the forced removal ran and
\* stop() settled.
C6_Witness ==
    /\ cfg = "docker"
    /\ pc = "stopSettled"
    /\ hist.graceful = "timeout"
    /\ calls.forceRemove = 1

\* C7: stop() of a compose target spawns `docker compose down` once, after
\* the signalling, with or without a pid, a reaction to SIGTERM or a
\* SIGKILL; when stop() settles it has resolved, teardown failed or not.
C7_ComposeTeardownUnconditional ==
    (cfg = "docker-compose" /\ calls.stop = 1) =>
        /\ pc \in {"stopCompose", "graceWait"} => calls.down = 0
        /\ pc \in {"composeDownWait", "stopSettled", "return"} =>
               calls.down = 1
        /\ pc \in {"stopSettled", "return"} =>
               (hist.stop = "resolved" /\ hist.down # "none")

\* C7 witness: the subprocess had no pid, the teardown ran and failed, and
\* stop() resolved.
C7_Witness ==
    /\ cfg = "docker-compose"
    /\ pc = "stopSettled"
    /\ ~child.pid
    /\ hist.down = "failed"
    /\ hist.stop = "resolved"

\* C8: a child that has not exited when the grace window ends has been
\* sent SIGKILL.
C8_KillAfterGrace ==
    hist.aliveAtGraceEnd =>
        (Len(sigs) >= 1 /\ sigs[Len(sigs)] = "SIGKILL")

\* C9: runVitestForTarget settles even if the spawned runner never exits.
C9_RunnerBounded == (pc = "vitestWait") ~> (pc \in {"reports", "catch"})

\* C10: stop() of every strategy settles even if a teardown or removal
\* command never exits.
C10_StopBounded == (pc \in StopPositions) ~> (pc = "stopSettled")

\* The positions of the pre-flight phase of runTests.
Preflight == {"loadRootConfig", "internalTests", "internalWait"}

\* C11 as stated: every run that has ended ran the self-check suite exactly
\* once.
C11_OncePerInvocation ==
    pc \in {"done", "aborted", "exited"} => internal.runs = 1

\* C11: the self-check suite is spawned at most once, and exactly once in
\* every run whose root configuration loaded and selected a target (a run
\* without either ends before the suite is spawned); no target is loaded or
\* started before the suite has passed; when the suite exits non-zero or
\* cannot be spawned the run is rejected with no target started, no
\* artifact written and no manifest entry.
C11_SelfCheckOnceBeforeTargets ==
    /\ internal.runs <= 1
    /\ abortCause \in {"rootConfig", "noTargets"} =>
           (internal = NoInternal /\ invoked = {})
    /\ (pc \notin {"loadRootConfig", "internalTests"}
          /\ abortCause \notin {"rootConfig", "noTargets"}) =>
           internal.runs = 1
    /\ (invoked # {} \/ (pc \notin Preflight \cup {"exited", "aborted"})) =>
           internal = [runs |-> 1, outcome |-> "passed"]
    /\ internal.outcome \in {"failed", "spawnError"} =>
           /\ pc = "aborted"
           /\ abortCause = "internal"
           /\ invoked = {}
           /\ idx = 1
           /\ calls = NoCalls
           /\ hist = NoHist
           /\ targetResults = <<>>

\* C11 witness: the suite could not be spawned and the run is rejected.
C11_Witness ==
    /\ internal = [runs |-> 1, outcome |-> "spawnError"]
    /\ pc = "aborted"

\* The test runner of the current target crashed.
Crashed == hist.vitest \in {"exitOther", "signal", "spawnError"}

\* C12: after exit code 0 or 1 the next step is report generation; after
\* any other exit code, a signal or a spawn error there is no extraction,
\* no bundle and no manifest entry for the target, stop() has run once
\* when runTargetTests returns, and the loop goes on with the next target.
C12_ExitClassification ==
    /\ [](hist.vitest \in {"exit0", "exit1"} =>
             (pc = "reports" \/ hist.junit # "none"))
    /\ [](Crashed =>
             /\ pc \in {"catch", "finally", "stopSettled", "return"}
                       \cup StopPositions
             /\ hist.junit = "none"
             /\ ~hist.bundle
             /\ result = "undefined"
             /\ Returned => (calls.stop = 1 /\ hist.stop # "none"))
    /\ [][(Returned /\ Crashed /\ pc' # pc) =>
             /\ targetResults' = targetResults
             /\ abortCause' = "none"
             /\ pc' = (IF idx < NumTargets THEN "load" ELSE "finalize")]_vars

\* C12 witness: the test runner was terminated by a signal, stop() has run
\* and runTargetTests has returned for the first of the targets.
C12_Witness ==
    /\ hist.vitest = "signal"
    /\ Returned
    /\ calls.stop = 1
    /\ idx = 1

C14_ConfigFailureBeforeAnyStart ==
    abortCause = "config" => invoked = {}

\* The tokens of a list.
Tokens(list) == {list[i] : i \in DOMAIN list}

\* The predicate has been evaluated.
Evaluated == fn \in {"testIf", "vitest", "extract", "recorded"}

\* C15: requires(R)(D) is true exactly when every token of R is a token of
\* D, tokens being equal only as identical strings (so "CORE:UPLOAD" is not
\* "core:upload", and a vendor token is a token like any other);
\* requires()(D) is true; hasCapability(D, c) is requires(c)(D).
C15_RequiresIsSubset ==
    Evaluated =>
        /\ out.requires <=> Tokens(inp.caps) \subseteq Tokens(inp.serverCaps)
        /\ inp.caps = <<>> => out.requires
        /\ \A c \in Capabilities :
               /\ (c \in out.has) <=> Requires(<<c>>, inp.serverCaps)
               /\ (c \in out.has) <=> c \in Tokens(inp.serverCaps)

\* C15 witness: a requirement that differs from the declared token only in
\* case, beside a vendor token that is declared, evaluates to false.
C15_Witness ==
    /\ Evaluated
    /\ inp.caps = <<"vendor:x", "CORE:UPLOAD">>
    /\ inp.serverCaps = <<"core:upload", "vendor:x">>
    /\ ~out.requires

\* C16: the body of a gated test runs only if every required token is
\* declared; otherwise the test is registered with it.skip, its body does
\* not run, and the extractor records it as skipped.
C16_GatedTestSkipped ==
    /\ out.bodyRan => Tokens(inp.caps) \subseteq Tokens(inp.serverCaps)
    /\ (fn \in {"vitest", "extract", "recorded"}
          /\ ~(Tokens(inp.caps) \subseteq Tokens(inp.serverCaps))) =>
           /\ out.registered = "it.skip"
           /\ ~out.bodyRan
           /\ fn = "recorded" =>
                  (Len(out.tests) = 1 /\ out.tests[1].status = "skipped")

\* C16 witness: health and upload declared, upload and download required;
\* the test has been recorded as skipped.
C16_Witness ==
    /\ fn = "recorded"
    /\ inp.serverCaps = <<"core:health", "core:upload">>
    /\ inp.caps = <<"core:upload", "core:download">>
    /\ out.tests[1].status = "skipped"
    /\ ~out.bodyRan

\* C17: N well-formed test cases, self-closing or with a body, give
\* exactly N records, the i-th record being the i-th test case.
C17_OneRecordPerEntry ==
    fn = "parsed" =>
        /\ Len(out.tests) = Len(inp)
        /\ \A i \in DOMAIN out.tests : out.tests[i].title = <<Letters[i]>>

\* The records of a status, and the sum of the records' durations.
WithStatus(tests, st) == {i \in DOMAIN tests : tests[i].status = st}

RECURSIVE TotalDuration(_, _)
TotalDuration(tests, I) ==
    IF I = {} THEN 0
    ELSE LET i == CHOOSE i \in I : TRUE
         IN  tests[i].durationMs + TotalDuration(tests, I \ {i})

\* C18: in the payload of writeRunResultsFromJUnit each of summary.passed,
\* summary.failed and summary.skipped is the number of records with that
\* status, the three sum to the number of records, and summary.durationMs
\* is the sum of the records' durationMs.
C18_SummaryMatchesRecords ==
    fn = "parsed" =>
        /\ out.summary.passed = Cardinality(WithStatus(out.tests, "passed"))
        /\ out.summary.failed = Cardinality(WithStatus(out.tests, "failed"))
        /\ out.summary.skipped = Cardinality(WithStatus(out.tests, "skipped"))
        /\ out.summary.passed + out.summary.failed + out.summary.skipped
              = Len(out.tests)
        /\ out.summary.durationMs
              = TotalDuration(out.tests, DOMAIN out.tests)

\* C18 witness: a skipped and a failed record, half a second between them.
C18_Witness ==
    /\ fn = "parsed"
    /\ Len(out.tests) = 2
    /\ out.tests[1].status = "skipped"
    /\ out.tests[2].status = "failed"
    /\ out.summary = [passed |-> 0, failed |-> 1, skipped |-> 1,
                      durationMs |-> 500]

HasReason(e) ==
    /\ e.skipped # <<>>
    /\ LET marker == e.skipped[1]
       IN  IF marker.msg.present THEN marker.msg.s # <<>>
           ELSE marker.form = "body"
                  /\ \E i \in DOMAIN marker.text : marker.text[i] # " "

\* No self-closing test case stands before one with a body, so that every
\* test case is matched by itself.
MatchedAlone(entries) ==
    \A i, j \in DOMAIN entries :
        (i < j /\ entries[i].form = "self") => entries[j].form = "self"

IsSeconds(s) ==
    LET from   == IF s # <<>> /\ s[1] = "-" THEN 2 ELSE 1
        points == {i \in from .. Len(s) : s[i] = "."}
    IN  /\ from <= Len(s)
        /\ \A i \in from .. Len(s) : s[i] \in Digits \cup {"."}
        /\ Cardinality(points) <= 1
        /\ Len(s) \notin points

\* The number the digits of the text spell, the point left out.
RECURSIVE Spelled(_)
Spelled(s) ==
    IF s = <<>> THEN 0
    ELSE LET front == SubSeq(s, 1, Len(s) - 1)
         IN  IF s[Len(s)] \in Digits
             THEN 10 * Spelled(front) + DigitValue(s[Len(s)])
             ELSE Spelled(front)

\* The digits behind the point.
Decimals(s) ==
    IF \E i \in DOMAIN s : s[i] = "."
    THEN Len(s) - (CHOOSE i \in DOMAIN s : s[i] = ".")
    ELSE 0

\* The text does not begin with a number: behind an optional sign there is
\* neither a digit nor a point followed by a digit.
NoNumber(s) ==
    LET from == IF s # <<>> /\ s[1] = "-" THEN 2 ELSE 1
    IN  ~(\/ from <= Len(s) /\ s[from] \in Digits
          \/ from < Len(s) /\ s[from] = "." /\ s[from + 1] \in Digits)

\* C20: a time attribute that is a decimal number of seconds gives the
\* integer nearest to a thousand times the number ("1.234" gives 1234); a
\* missing or empty attribute, or one that does not begin with a number,
\* gives 0.
C20_SecondsToMilliseconds ==
    fn = "duration" =>
        /\ (~inp.present \/ inp.s = <<>> \/ NoNumber(inp.s)) => out = 0
        /\ (inp.present /\ IsSeconds(inp.s)) =>
               LET scale == Pow10(Decimals(inp.s))
                   exact == (IF inp.s[1] = "-" THEN 0 - 1 ELSE 1)
                               * Spelled(inp.s) * 1000
               IN  /\ 2 * out * scale - 2 * exact <= scale
                   /\ 2 * exact - 2 * out * scale < scale
        /\ inp = Attr(<<"1", ".", "2", "3", "4">>) => out = 1234

\* C20 witness: "1.234" has been converted to 1234.
C20_Witness ==
    /\ fn = "duration"
    /\ inp = Attr(<<"1", ".", "2", "3", "4">>)
    /\ out = 1234

\* The literal text of a piece, and of a message.
Literal(piece) ==
    CASE piece = EscLt   -> <<"<">>
      [] piece = EscGt   -> <<">">>
      [] piece = EscQuot -> <<"\"">>
      [] piece = EscApos -> <<"'">>
      [] piece = EscAmp  -> <<"&">>
      [] OTHER           -> piece

RECURSIVE LiteralText(_)
LiteralText(pieces) ==
    IF pieces = <<>> THEN <<>>
    ELSE Literal(Head(pieces)) \o LiteralText(Tail(pieces))

\* C21: the extracted error message and skip reason are the text of the
\* marker with every escape sequence replaced by its character and the
\* CDATA wrapper removed.
C21_MessagesUnescaped ==
    (fn = "decoded" /\ inp.pieces # <<>>) =>
        /\ Len(out) = 1
        /\ inp.kind = "failure" =>
               out[1].error.message = LiteralText(inp.pieces)
        /\ inp.kind = "skipped" =>
               out[1].skipReason = Attr(LiteralText(inp.pieces))

\* The opening tags that are closed: a closing tag closes the nearest
\* opening tag before it that is still open.
RECURSIVE ClosedOpens(_, _, _, _)
ClosedOpens(kinds, i, open, closed) ==
    IF i > Len(kinds) THEN closed
    ELSE IF kinds[i] = "open"
    THEN ClosedOpens(kinds, i + 1, <<i>> \o open, closed)
    ELSE IF kinds[i] = "close" /\ open # <<>>
    THEN ClosedOpens(kinds, i + 1, Tail(open), closed \cup {Head(open)})
    ELSE ClosedOpens(kinds, i + 1, open, closed)

\* C22: parseTestCases returns a list of records for any text, and a test
\* case whose opening tag is never closed gives no record.
C22_UnclosedGivesNoRecord ==
    fn = "scanned" =>
        /\ Len(out) <= Len(inp)
        /\ \A i \in DOMAIN inp :
               (inp[i] = "open" /\ i \notin ClosedOpens(inp, 1, <<>>, {})) =>
                   \A r \in DOMAIN out : out[r].title # <<Letters[i]>>

\* The tokens some record requires.
RequiredBy(tests) ==
    UNION {{tests[t][k] : k \in DOMAIN tests[t]} : t \in DOMAIN tests}

\* C23: feature-matrix.md has exactly one row for each distinct token in
\* the requirements of the records and no other row, the rows are in
\* sorted order, and a row is flagged supported iff the target declares
\* its token.
C23_OneRowPerRequiredToken ==
    (fn = "emit" /\ out.matrixWrites > 0) =>
        LET rows == out.matrix.text.rows
        IN  /\ \A cap \in RequiredBy(inp.tests) :
                   Cardinality({i \in DOMAIN rows : rows[i].cap = cap}) = 1
            /\ \A i \in DOMAIN rows : rows[i].cap \in RequiredBy(inp.tests)
            /\ \A i, j \in DOMAIN rows :
                   i < j => Rank(rows[i].cap) < Rank(rows[j].cap)
            /\ \A i \in DOMAIN rows :
                   rows[i].supported = "Y" <=>
                       \E k \in DOMAIN inp.capabilities :
                           inp.capabilities[k] = rows[i].cap

\* A table of three rows, of which one token is required by two records,
\* one is declared and one is not.
C23_Witness ==
    /\ fn = "emit"
    /\ out.matrixWrites > 0
    /\ Len(out.matrix.text.rows) = 3
    /\ Len(inp.tests) = 2
    /\ \E cap \in RequiredBy(inp.tests) :
           \A t \in DOMAIN inp.tests : \E k \in DOMAIN inp.tests[t] : inp.tests[t][k] = cap
    /\ \E i, j \in DOMAIN out.matrix.text.rows :
           /\ out.matrix.text.rows[i].supported = "Y"
           /\ out.matrix.text.rows[j].supported = "N"
    /\ Len(inp.capabilities) = 2

ManifestIds(manifest) == {manifest[i].id : i \in DOMAIN manifest}

\* C25 as stated: a manifest lists exactly the targets whose results.json
\* was written.
C25_ManifestListsBundled ==
    \A m \in DOMAIN run.manifests : ManifestIds(run.manifests[m]) = run.bundled

\* C25: a manifest lists exactly the targets whose results.json and
\* feature-matrix.md were both written, each once, in the configured order
\* and with the path <target>/results.json; a target whose start failed is
\* not listed.
C25_ManifestListsCompleted ==
    \A m \in DOMAIN run.manifests :
        LET manifest == run.manifests[m]
        IN  /\ ManifestIds(manifest) = run.bundled \cap run.tabled
            /\ ManifestIds(manifest) \cap startFailed = {}
            /\ \A i, j \in DOMAIN manifest : i < j => manifest[i].id < manifest[j].id
            /\ \A i \in DOMAIN manifest :
                   manifest[i].path = <<manifest[i].id, "results.json">>

\* A manifest of two targets written at the end of the run.
C25_Witness ==
    /\ pc = "done"
    /\ Len(run.manifests) = 1
    /\ Len(run.manifests[1]) = 2
    /\ run.manifests[1][1].id # run.manifests[1][2].id

\* C26: a run past the pre-flight phase that has ended, for any reason but
\* the manifest itself not being writable, has written the manifest once
\* and printed the summary once.
C26_ManifestAndSummaryOnce ==
    (pc \in {"done", "aborted"}
        /\ abortCause \notin {"rootConfig", "internal", "manifest"}) =>
            /\ Len(run.manifests) = 1
            /\ run.summaries = 1

\* The smaller of two numbers.
Min(a, b) == IF a < b THEN a ELSE b

\* C27: after n 'data' events the captured log holds the most recent
\* min(n, MAX_LOG_ENTRIES) chunks in arrival order, and never more than
\* MAX_LOG_ENTRIES.
C27_KeepsMostRecentChunks ==
    fn = "logs" =>
        LET kept == Min(out.n, MAX_LOG_ENTRIES)
        IN  /\ Len(out.logs) <= MAX_LOG_ENTRIES
            /\ out.logs = [i \in 1..kept |-> out.n - kept + i]

\* C28: while a second invocation of stop() runs, no signal is sent, no
\* container stop or removal and no stack teardown is started, and the
\* invocation does not settle with a rejection.
C28_SecondStopDoesNothing ==
    [][(calls.stop = 2 /\ pc # "return") =>
          /\ sigs' = sigs
          /\ calls'.forceRemove = calls.forceRemove
          /\ calls'.down = calls.down
          /\ pc' # "dockerStopWait"
          /\ pc' = "stopSettled" => hist'.stop # "rejected"]_vars

\* C29: waitForHttp does not return on a response observed after timeoutMs
\* has elapsed since the probe began.
C29_NoSuccessAfterDeadline ==
    (fn = "probe" /\ out.phase = "returned") => out.now <= inp.timeoutMs

\* C30: an attempt that fails or sees another status is followed by the
\* retry wait of HEALTH_CHECK_RETRY and recorded as the last error; the
\* probe throws only once timeoutMs has elapsed, with the message of the
\* last failure observed; it returns at once when an attempt observes the
\* expected status, and only then.
C30_RetriesUntilDeadline ==
    /\ [](fn = "probe" =>
            /\ out.phase = "threw" =>
                   /\ out.now >= inp.timeoutMs
                   /\ out.observed # "none" => out.message = out.observed
            /\ out.phase = "returned" <=> out.observed = "expected")
    /\ [][(fn = "probe" /\ out.phase = "inFlight" /\ out'.phase # "inFlight") =>
             \/ out'.phase = "returned"
             \/ /\ out'.phase = "sleeping"
                /\ out'.wake = out.now + HEALTH_CHECK_RETRY
                /\ out'.lastError = out'.observed
                /\ out'.observed \in AttemptFailures]_vars
    /\ [][(fn = "probe" /\ out.phase = "sleeping" /\ out'.phase # "sleeping") =>
             out'.phase = "loopHead" /\ out.now = out.wake]_vars

\* The probe has thrown after two failed attempts, with the message of the
\* second.
C30_Witness ==
    /\ fn = "probe"
    /\ out.phase = "threw"
    /\ out.attempts = 2
    /\ out.message = "got 503"
    /\ out.now >= inp.timeoutMs

\* C31: for a compose target the `up` subprocess is spawned only by the
\* step in which the pre-start teardown settles, and that step spawns it
\* whether the teardown succeeded or failed.
C31_TeardownBeforeUp ==
    /\ [](cfg = "docker-compose" =>
            /\ pc = "preDown" => (child = NoChild /\ hist.preDown = "none")
            /\ (child.pid \/ pc = "waitForHttp") => hist.preDown \in {"ok", "failed"})
    /\ [][pc = "preDown" =>
             /\ pc' = "waitForHttp"
             /\ hist'.preDown \in {"ok", "failed"}]_vars

\* The stack was started and became ready after a failed pre-start
\* teardown.
C31_Witness ==
    /\ cfg = "docker-compose"
    /\ hist.preDown = "failed"
    /\ hist.start = "resolved"
    /\ child.running

\* C32: no attempt of waitForHttp stays in flight for longer than the
\* per-request timeout HEALTH_CHECK_REQUEST.
C32_AttemptBounded ==
    (fn = "probe" /\ out.phase = "inFlight") =>
        out.now - out.sentAt <= HEALTH_CHECK_REQUEST

\* The phase of runTargetTests a position belongs to, in the order of the
\* pipeline.
PhaseOf(position) ==
    CASE position \in {"startTarget", "containerStart", "preDown"} -> 1
      [] position = "waitForHttp" -> 2
      [] position \in {"writeServerInfo", "runVitest", "vitestWait"} -> 3
      [] position = "reports" -> 4
      [] position = "catch" -> 5
      [] position \in {"finally", "stopSettled"} \cup StopPositions -> 6
      [] OTHER -> 0

\* C33: within a target the phases start, probe, test run, extraction and
\* emission, stop are entered in that order; the test runner is spawned
\* only after the probe has succeeded, and extraction and emission begin
\* only after the test runner has exited.
C33_PhasesInOrder ==
    /\ [](/\ calls.vitest > 0 => hist.start = "resolved"
          /\ (pc = "reports" \/ hist.reports # "none" \/ hist.junit # "none") =>
                 (calls.vitest = 1 /\ hist.vitest \in {"exit0", "exit1"})
          /\ calls.stop > 0 => hist.start = "resolved")
    /\ [][(PhaseOf(pc) > 0 /\ PhaseOf(pc') > 0) => PhaseOf(pc') >= PhaseOf(pc)]_vars

\* A target that went through every phase: reports emitted after the test
\* runner exited, stop() settled.
C33_Witness ==
    /\ pc = "stopSettled"
    /\ hist.start = "resolved"
    /\ hist.vitest = "exit1"
    /\ hist.reports = "entry"
    /\ calls.stop = 1

\* The body holds a marker of the kind.
HasMarker(body, k) == \E i \in DOMAIN body : body[i].k = k

\* C34: the record of a test case is failed if its body holds a failure
\* marker, otherwise skipped if it holds a skip marker, otherwise passed.
C34_MarkerPrecedence ==
    fn = "classified" =>
        /\ Len(out) = 1
        /\ out[1].status = IF HasMarker(inp, "failure") THEN "failed"
                           ELSE IF HasMarker(inp, "skipped") THEN "skipped"
                           ELSE "passed"

\* C35: the ids of the records of one parse are pairwise distinct.
C35_IdsDistinct ==
    fn = "identified" =>
        \A i, j \in DOMAIN out : i # j => out[i] # out[j]

\* C36: parseDuration gives a non-negative number of milliseconds for
\* every time attribute.
C36_DurationNonNegative ==
    fn = "duration" => out >= 0

\* C37: the records of the bundle carry the requirements of their tests,
\* and the coverage table of the run has a row for every token some test
\* of the target requires.
C37_TableCoversRequirements ==
    fn = "emitted" =>
        /\ out.requirements = inp.tests
        /\ \A cap \in RequiredBy(inp.tests) :
               \E i \in DOMAIN out.matrix.text.rows :
                   out.matrix.text.rows[i].cap = cap

\* C38: the resolved base URL holds no placeholder of a declared port.
C38_NoPlaceholderLeft ==
    fn = "resolved" =>
        \A p \in Range(inp.ports) : Placeholder(p) \notin Range(out)

\* C39: for a failure marker without a message attribute, error.message is
\* error.stack, the body text decoded once.
C39_DecodedOnce ==
    (fn = "decoded" /\ inp.kind = "failure" /\ inp.where # "attr"
        /\ inp.pieces # <<>>) =>
            /\ Len(out) = 1
            /\ out[1].error.stack.present
            /\ out[1].error.message = out[1].error.stack.s

====
